---------------------------- MODULE Spec2Model ----------------------------
(***************************************************************************)
(* A model of the rucbase-lab storage core: the multi-granularity no-wait  *)
(* lock manager, the transaction manager with its in-memory undo list, the *)
(* slotted-page heap file, the B+tree index and the DML executors.         *)
(***************************************************************************)
EXTENDS Integers, Sequences, FiniteSets, TLC

(***************************************************************************)
(* Bounds of the model.                                                    *)
(***************************************************************************)
Txns == {1, 2}

\* threads that call the B+tree
Threads == {1, 2}

\* a thread outside every B+tree call
Idle == [op |-> "none", at |-> "idle", key |-> 0, leaf |-> 0]

\* no SELECT is running: no executor tree has been built
NoPlan == [root |-> [type |-> "none"], begun |-> FALSE, out |-> <<>>]

\* SmManager after create_db and open_db: tabs is db_.tabs_ (table name ->
\* the column lists of TabMeta::indexes), fhs and ihs are the keys of fhs_
\* and ihs_, meta is db_.tabs_ as flush_meta wrote it, open tells whether
\* the database is open
NewDb == [tabs |-> <<>>, fhs |-> {}, ihs |-> {}, meta |-> <<>>, open |-> TRUE]

\* rows (record lock ids) the lock-manager specification locks
LockRows == {<<1, 0>>}

VARIABLES
    lock_table,   \* LockManager::lock_table_ : lock id -> [reqs, group]
    txn_state,    \* Transaction::state_ of every transaction
    lock_set,     \* Transaction::lock_set_
    write_set,    \* Transaction::write_set_ (the undo list)
    failed,       \* a TransactionAbortException reached the client of t
    next_txn_id,  \* TransactionManager::next_txn_id_
    fh_,          \* the table's heap file: file header and data pages
    indexes,      \* TabMeta::indexes holds the index on column a
    ihs_,         \* SmManager::ihs_ holds an open handle of that index
    ih_,          \* the index file: header fields and node pages
    scan_,        \* per transaction: the rids its last scan collected
    ix_map,       \* ghost: the map the B+tree calls should implement
    snap,         \* ghost: heap and index at the last begin
    last,         \* outcome of the last call: [op, txn, id, res]
    root_latch_,  \* IxIndexHandle::root_latch_: the thread that owns it, 0 if free
    pc,           \* per thread: the B+tree call it is in and where
    pin_count_,   \* Page::pin_count_ of the pages of the index file
    exec_,        \* the executor tree of a SELECT and the tuples it returned
    sm_           \* SmManager of a database of several tables: db_, fhs_, ihs_

vars == <<lock_table, txn_state, lock_set, write_set, failed, next_txn_id, fh_,
          indexes, ihs_, ih_, scan_, ix_map, snap, last, root_latch_, pc,
          pin_count_, exec_, sm_>>

\* the state the specifications of single calls follow: the latch, the
\* threads, the pins of the buffer pool, the executor tree and the catalog
callvars == <<root_latch_, pc, pin_count_, exec_, sm_>>

(***************************************************************************)
(* Lock manager                                                            *)
(***************************************************************************)
TAB == <<"TABLE">>

LockIds == {TAB} \cup LockRows

LockModes == {"IS", "IX", "S", "SIX", "X"}

EmptyQueue == [reqs |-> <<>>, group |-> "NON_LOCK"]

\* a request that keeps granted_ as LockRequest's constructor sets it
Req_waiting(t, m) == [txn |-> t, mode |-> m, granted |-> FALSE]

Req(t, m) == [txn |-> t, mode |-> m, granted |-> TRUE]

\* index of the first request of t whose mode is in ms, 0 when there is none:
\* the loop "for (auto& req : request_queue_) if (req.txn_id_ == txn) ..."
FirstIdx(reqs, t, ms) ==
    LET S == {i \in 1..Len(reqs) : reqs[i].txn = t /\ reqs[i].mode \in ms}
    IN IF S = {} THEN 0 ELSE CHOOSE i \in S : \A j \in S : i <= j

\* "only_current_txn": no granted request of another transaction
OnlyCurrentTxn(reqs, t) ==
    \A i \in 1..Len(reqs) : ~(reqs[i].txn # t /\ reqs[i].granted)

\* a return of true that leaves the queue without a group mode
Granted_regroup(q) ==
    [err |-> "OK", q |-> [q EXCEPT !.group = "NON_LOCK"], ins |-> FALSE]

Granted(q) == [err |-> "OK", q |-> q, ins |-> FALSE]

\* a refusal that takes the last request out of the queue
Refused_dequeue(q) ==
    [err |-> "DEADLOCK_PREVENTION",
     q |-> [q EXCEPT !.reqs = SubSeq(@, 1, Len(@) - 1)], ins |-> FALSE]

Refused(q) == [err |-> "DEADLOCK_PREVENTION", q |-> q, ins |-> FALSE]

\* a new request that is queued without the insert into lock_set_
Appended_no_insert(q, t, m, g) ==
    [err |-> "OK", q |-> [reqs |-> Append(q.reqs, Req(t, m)), group |-> g],
     ins |-> FALSE]

Appended(q, t, m, g) ==
    [err |-> "OK", q |-> [reqs |-> Append(q.reqs, Req(t, m)), group |-> g],
     ins |-> TRUE]

\* an upgrade that queues a second request of the transaction
Upgraded_append(q, i, m, g) ==
    [err |-> "OK",
     q |-> [reqs |-> Append(q.reqs, Req(q.reqs[i].txn, m)), group |-> g],
     ins |-> FALSE]

Upgraded(q, i, m, g) ==
    [err |-> "OK",
     q |-> [reqs |-> [q.reqs EXCEPT ![i].mode = m], group |-> g],
     ins |-> FALSE]

lock_shared_on_record(q, t) ==
    LET i == FirstIdx(q.reqs, t, {"S", "X"})
    IN IF i # 0 THEN Granted(q)
       ELSE IF q.group = "X" THEN Refused(q)
       ELSE Appended(q, t, "S",
                IF q.group \in {"NON_LOCK", "IS"} THEN "S"
                ELSE IF q.group = "IX" THEN "SIX" ELSE q.group)

lock_exclusive_on_record(q, t) ==
    LET i == FirstIdx(q.reqs, t, {"S", "X"})
    IN IF i # 0
       THEN IF q.reqs[i].mode = "X" THEN Granted(q)
            ELSE IF Len(q.reqs) = 1 THEN Upgraded(q, i, "X", "X")
            ELSE Refused(q)
       ELSE IF q.group # "NON_LOCK" THEN Refused(q)
       ELSE Appended(q, t, "X", "X")

lock_shared_on_table(q, t) ==
    LET i == FirstIdx(q.reqs, t, LockModes)
    IN IF i # 0
       THEN IF q.reqs[i].mode \in {"S", "X", "SIX"} THEN Granted(q)
            ELSE IF q.group \in {"IX", "X", "SIX"} /\ ~OnlyCurrentTxn(q.reqs, t)
                 THEN Refused(q)
            ELSE IF q.reqs[i].mode = "IS" THEN Upgraded(q, i, "S", "S")
            ELSE Upgraded(q, i, "SIX", "SIX")
       ELSE IF q.group \in {"IX", "X", "SIX"} THEN Refused(q)
       ELSE Appended(q, t, "S",
                IF q.group \in {"NON_LOCK", "IS"} THEN "S" ELSE q.group)

lock_exclusive_on_table(q, t) ==
    LET i == FirstIdx(q.reqs, t, LockModes)
    IN IF i # 0
       THEN IF q.reqs[i].mode = "X" THEN Granted(q)
            ELSE IF Len(q.reqs) = 1 THEN Upgraded(q, i, "X", "X")
            ELSE Refused(q)
       ELSE IF q.group # "NON_LOCK" THEN Refused(q)
       ELSE Appended(q, t, "X", "X")

\* an IS request that overwrites the group mode of the queue with IS
lock_IS_on_table_overwrite(q, t) ==
    LET i == FirstIdx(q.reqs, t, LockModes)
    IN IF i # 0 THEN Granted(q)
       ELSE IF q.group = "X" THEN Refused(q)
       ELSE Appended(q, t, "IS", "IS")

lock_IS_on_table(q, t) ==
    LET i == FirstIdx(q.reqs, t, LockModes)
    IN IF i # 0 THEN Granted(q)
       ELSE IF q.group = "X" THEN Refused(q)
       ELSE Appended(q, t, "IS",
                IF q.group = "NON_LOCK" THEN "IS" ELSE q.group)

lock_IX_on_table(q, t) ==
    LET i == FirstIdx(q.reqs, t, LockModes)
    IN IF i # 0
       THEN IF q.reqs[i].mode \in {"IX", "X", "SIX"} THEN Granted(q)
            ELSE IF q.reqs[i].mode = "IS"
            THEN IF q.group \in {"S", "X", "SIX"} /\ ~OnlyCurrentTxn(q.reqs, t)
                 THEN Refused(q)
                 ELSE Upgraded(q, i, "IX",
                          IF q.group \in {"IS", "NON_LOCK"} THEN "IX" ELSE q.group)
            ELSE IF q.group \in {"IX", "X", "SIX"} /\ ~OnlyCurrentTxn(q.reqs, t)
                 THEN Refused(q)
                 ELSE Upgraded(q, i, "SIX", "SIX")
       ELSE IF q.group \in {"S", "X", "SIX"} THEN Refused(q)
       ELSE Appended(q, t, "IX",
                IF q.group \in {"NON_LOCK", "IS"} THEN "IX" ELSE q.group)

\* one step of unlock's recomputation of group_lock_mode_ (the switch)
GroupStep(g, m) ==
    CASE m = "X" -> "X"
      [] m = "SIX" -> IF g # "X" THEN "SIX" ELSE g
      [] m = "S" -> IF g \in {"NON_LOCK", "IS"} THEN "S"
                    ELSE IF g = "IX" THEN "SIX" ELSE g
      [] m = "IX" -> IF g \in {"NON_LOCK", "IS"} THEN "IX"
                     ELSE IF g = "S" THEN "SIX" ELSE g
      [] m = "IS" -> IF g = "NON_LOCK" THEN "IS" ELSE g

RECURSIVE GroupOf(_, _)
GroupOf(reqs, g) ==
    IF reqs = <<>> THEN g
    ELSE GroupOf(Tail(reqs),
                 IF Head(reqs).granted THEN GroupStep(g, Head(reqs).mode) ELSE g)

RemoveAt(s, i) == SubSeq(s, 1, i - 1) \o SubSeq(s, i + 1, Len(s))

\* LockManager::unlock on one queue: [found, q]
unlock(q, t) ==
    LET i == FirstIdx(q.reqs, t, LockModes)
    IN IF i = 0 THEN [found |-> FALSE, q |-> q]
       ELSE LET rest == RemoveAt(q.reqs, i)
            IN [found |-> TRUE,
                q |-> [reqs |-> rest, group |-> GroupOf(rest, "NON_LOCK")]]

(***************************************************************************)
(* B+tree index (IxNodeHandle / IxIndexHandle)                             *)
(***************************************************************************)
IX_NO_PAGE == -1

IX_LEAF_HEADER_PAGE == 1

IX_INIT_ROOT_PAGE == 2

\* capacity of a node of the index the clients work on: a node is split
\* when it reaches this many keys
MaxSize == 4

\* an odd capacity, for an index with a longer key
OddMaxSize == 5

\* the capacity is a field of the file header, the same for every node
get_max_size(ix) == ix.max_size

get_min_size(ix) == (get_max_size(ix) + 1) \div 2

\* page numbers the index file may grow to (pages are never reused)
MaxIxPages == 9

\* pages one insert_entry may allocate past MaxIxPages before its caller
\* is refused: one per level and a new root
SplitRoom == 4

IxPages == 1..(MaxIxPages + SplitRoom)

\* a page as new_page hands it out
FreshNode ==
    [is_leaf |-> FALSE, parent |-> 0, prev_leaf |-> 0, next_leaf |-> 0,
     keys |-> <<>>, rids |-> <<>>]

\* the index file as IxManager::create_index writes it: the leaf-list
\* sentinel on page 1 and an empty root leaf on page 2
NewIndex(max_size) ==
    [max_size |-> max_size,
     root_page |-> IX_INIT_ROOT_PAGE, first_leaf |-> IX_INIT_ROOT_PAGE,
     last_leaf |-> IX_INIT_ROOT_PAGE, num_pages |-> 3, next_page_no |-> 3,
     nodes |-> [p \in IxPages |->
        IF p = IX_LEAF_HEADER_PAGE
        THEN [FreshNode EXCEPT !.is_leaf = TRUE, !.parent = IX_NO_PAGE,
                               !.prev_leaf = IX_INIT_ROOT_PAGE,
                               !.next_leaf = IX_INIT_ROOT_PAGE]
        ELSE IF p = IX_INIT_ROOT_PAGE
        THEN [FreshNode EXCEPT !.is_leaf = TRUE, !.parent = IX_NO_PAGE,
                               !.prev_leaf = IX_LEAF_HEADER_PAGE,
                               !.next_leaf = IX_LEAF_HEADER_PAGE]
        ELSE FreshNode]]

get_size(node) == Len(node.keys)

\* key and rid at C position pos (0-based)
get_key(node, pos) == node.keys[pos + 1]

get_rid(node, pos) == node.rids[pos + 1]

value_at(node, pos) == node.rids[pos + 1][1]

is_root_page(node) == node.parent = IX_NO_PAGE

\* position of the child page in the parent's values
find_child(parent, child_page_no) ==
    CHOOSE i \in 0..(get_size(parent) - 1) :
        /\ value_at(parent, i) = child_page_no
        /\ \A j \in 0..(i - 1) : value_at(parent, j) # child_page_no

ix_compare(a, b) == IF a < b THEN -1 ELSE IF a > b THEN 1 ELSE 0

RECURSIVE LowerSearch(_, _, _, _)
LowerSearch(node, target, left, right) ==
    IF left < right
    THEN LET mid == left + (right - left) \div 2
         IN IF ix_compare(get_key(node, mid), target) < 0
            THEN LowerSearch(node, target, mid + 1, right)
            ELSE LowerSearch(node, target, left, mid)
    ELSE left

node_lower_bound(node, target) == LowerSearch(node, target, 0, get_size(node))

RECURSIVE UpperSearch(_, _, _, _)
UpperSearch(node, target, left, right) ==
    IF left < right
    THEN LET mid == left + (right - left) \div 2
         IN IF ix_compare(get_key(node, mid), target) <= 0
            THEN UpperSearch(node, target, mid + 1, right)
            ELSE UpperSearch(node, target, left, mid)
    ELSE left

node_upper_bound(node, target) == UpperSearch(node, target, 1, get_size(node))

leaf_lookup(node, key) ==
    LET pos == node_lower_bound(node, key)
    IN IF pos < get_size(node) /\ ix_compare(get_key(node, pos), key) = 0
       THEN [found |-> TRUE, rid |-> get_rid(node, pos)]
       ELSE [found |-> FALSE, rid |-> <<-1, -1>>]

\* a lookup that descends by lower_bound: a key equal to a separator is
\* sent to the child on the left of it
internal_lookup_lower(node, key) ==
    LET pos == node_lower_bound(node, key)
    IN value_at(node, IF pos = 0 THEN 0 ELSE pos - 1)

internal_lookup(node, key) == value_at(node, node_upper_bound(node, key) - 1)

InsertSeq(s, pos, xs) == SubSeq(s, 1, pos) \o xs \o SubSeq(s, pos + 1, Len(s))

insert_pairs(node, pos, ks, rs) ==
    [node EXCEPT !.keys = InsertSeq(node.keys, pos, ks),
                 !.rids = InsertSeq(node.rids, pos, rs)]

\* an insert that stores the new rid under a key the node already holds
node_insert_overwrite(node, key, value) ==
    LET pos == node_lower_bound(node, key)
    IN IF pos < get_size(node) /\ ix_compare(get_key(node, pos), key) = 0
       THEN [node EXCEPT !.rids[pos + 1] = value]
       ELSE insert_pairs(node, pos, <<key>>, <<value>>)

node_insert(node, key, value) ==
    LET pos == node_lower_bound(node, key)
    IN IF pos < get_size(node) /\ ix_compare(get_key(node, pos), key) = 0
       THEN node
       ELSE insert_pairs(node, pos, <<key>>, <<value>>)

erase_pair(node, pos) ==
    [node EXCEPT !.keys = RemoveAt(node.keys, pos + 1),
                 !.rids = RemoveAt(node.rids, pos + 1)]

node_remove(node, key) ==
    LET pos == node_lower_bound(node, key)
    IN IF pos < get_size(node) /\ ix_compare(get_key(node, pos), key) = 0
       THEN erase_pair(node, pos)
       ELSE node

RECURSIVE find_leaf_page(_, _, _)
find_leaf_page(ix, page_no, key) ==
    IF ix.nodes[page_no].is_leaf THEN page_no
    ELSE find_leaf_page(ix, internal_lookup(ix.nodes[page_no], key), key)

get_value(ix, key) ==
    leaf_lookup(ix.nodes[find_leaf_page(ix, ix.root_page, key)], key)

\* maintain_child for the children at C positions from..to-1 of node p
RECURSIVE maintain_children(_, _, _, _)
maintain_children(nodes, p, from, to) ==
    IF from >= to \/ nodes[p].is_leaf THEN nodes
    ELSE maintain_children(
            [nodes EXCEPT ![value_at(nodes[p], from)].parent = p],
            p, from + 1, to)

\* a maintain_parent that takes the key at position 0 of an internal node
\* for unused and leaves it alone
maintain_parent_skip_first(nodes, p) ==
    IF nodes[p].parent = IX_NO_PAGE THEN nodes
    ELSE LET par == nodes[p].parent
             rank == find_child(nodes[par], p)
         IN IF rank = 0 \/ get_key(nodes[par], rank) = get_key(nodes[p], 0)
            THEN nodes
            ELSE [nodes EXCEPT ![par].keys[rank + 1] = get_key(nodes[p], 0)]

RECURSIVE maintain_parent(_, _)
maintain_parent(nodes, p) ==
    IF nodes[p].parent = IX_NO_PAGE THEN nodes
    ELSE LET par == nodes[p].parent
             rank == find_child(nodes[par], p)
         IN IF get_key(nodes[par], rank) = get_key(nodes[p], 0) THEN nodes
            ELSE maintain_parent(
                    [nodes EXCEPT ![par].keys[rank + 1] = get_key(nodes[p], 0)],
                    par)

\* create_node: the next page of the file
create_node(ix) ==
    [ix EXCEPT !.num_pages = @ + 1, !.next_page_no = @ + 1,
               !.nodes[ix.next_page_no] = FreshNode]

\* a split that leaves one entry more in the old node
split_uneven(ix, p) ==
    LET new == ix.next_page_no
        ix1 == create_node(ix)
        node == ix1.nodes[p]
        split_pos == get_size(node) \div 2 + 1
        new_node == [insert_pairs(FreshNode, 0,
                        SubSeq(node.keys, split_pos + 1, Len(node.keys)),
                        SubSeq(node.rids, split_pos + 1, Len(node.rids)))
                     EXCEPT !.is_leaf = node.is_leaf, !.parent = node.parent]
        cut == [node EXCEPT !.keys = SubSeq(node.keys, 1, split_pos),
                            !.rids = SubSeq(node.rids, 1, split_pos)]
    IN IF node.is_leaf
       THEN LET next_leaf_no == node.next_leaf
                n1 == [ix1.nodes EXCEPT
                         ![new] = [new_node EXCEPT !.prev_leaf = p,
                                                   !.next_leaf = next_leaf_no],
                         ![p] = [cut EXCEPT !.next_leaf = new]]
                n2 == [n1 EXCEPT ![next_leaf_no].prev_leaf = new]
            IN [ix1 EXCEPT !.nodes = n2,
                           !.last_leaf = IF @ = p THEN new ELSE @]
       ELSE LET n1 == [ix1.nodes EXCEPT ![new] = new_node, ![p] = cut]
            IN [ix1 EXCEPT !.nodes =
                    maintain_children(n1, new, 0, get_size(new_node))]

\* split node p; the new right sibling is page ix.next_page_no
split(ix, p) ==
    LET new == ix.next_page_no
        ix1 == create_node(ix)
        node == ix1.nodes[p]
        split_pos == get_size(node) \div 2
        new_node == [insert_pairs(FreshNode, 0,
                        SubSeq(node.keys, split_pos + 1, Len(node.keys)),
                        SubSeq(node.rids, split_pos + 1, Len(node.rids)))
                     EXCEPT !.is_leaf = node.is_leaf, !.parent = node.parent]
        cut == [node EXCEPT !.keys = SubSeq(node.keys, 1, split_pos),
                            !.rids = SubSeq(node.rids, 1, split_pos)]
    IN IF node.is_leaf
       THEN LET next_leaf_no == node.next_leaf
                n1 == [ix1.nodes EXCEPT
                         ![new] = [new_node EXCEPT !.prev_leaf = p,
                                                   !.next_leaf = next_leaf_no],
                         ![p] = [cut EXCEPT !.next_leaf = new]]
                n2 == [n1 EXCEPT ![next_leaf_no].prev_leaf = new]
            IN [ix1 EXCEPT !.nodes = n2,
                           !.last_leaf = IF @ = p THEN new ELSE @]
       ELSE LET n1 == [ix1.nodes EXCEPT ![new] = new_node, ![p] = cut]
            IN [ix1 EXCEPT !.nodes =
                    maintain_children(n1, new, 0, get_size(new_node))]

RECURSIVE insert_into_parent(_, _, _, _)
insert_into_parent(ix, old, key, new) ==
    IF is_root_page(ix.nodes[old])
    THEN LET root == ix.next_page_no
             ix1 == create_node(ix)
             new_root == [insert_pairs(FreshNode, 0,
                             <<get_key(ix1.nodes[old], 0), key>>,
                             <<<<old, 0>>, <<new, 0>>>>)
                          EXCEPT !.is_leaf = FALSE, !.parent = IX_NO_PAGE]
         IN [ix1 EXCEPT !.nodes = [ix1.nodes EXCEPT ![root] = new_root,
                                                    ![old].parent = root,
                                                    ![new].parent = root],
                        !.root_page = root]
    ELSE LET par == ix.nodes[old].parent
             old_idx == find_child(ix.nodes[par], old)
             ix1 == [ix EXCEPT
                       !.nodes[par] = insert_pairs(@, old_idx + 1, <<key>>,
                                                   <<<<new, 0>>>>),
                       !.nodes[new].parent = par]
         IN IF get_size(ix1.nodes[par]) = get_max_size(ix1)
            THEN LET new_parent == ix1.next_page_no
                     ix2 == split(ix1, par)
                 IN insert_into_parent(ix2, par,
                        get_key(ix2.nodes[new_parent], 0), new_parent)
            ELSE ix1

insert_entry(ix, key, value) ==
    LET leaf == find_leaf_page(ix, ix.root_page, key)
        inserted == node_insert(ix.nodes[leaf], key, value)
    IN IF get_size(inserted) = get_size(ix.nodes[leaf])
       THEN [ix EXCEPT !.nodes[leaf] = inserted]
       ELSE LET ix1 == [ix EXCEPT !.nodes =
                          maintain_parent([ix.nodes EXCEPT ![leaf] = inserted],
                                          leaf)]
            IN IF get_size(ix1.nodes[leaf]) = get_max_size(ix1)
               THEN LET new_leaf == ix1.next_page_no
                        ix2 == split(ix1, leaf)
                    IN insert_into_parent(ix2, leaf,
                           get_key(ix2.nodes[new_leaf], 0), new_leaf)
               ELSE ix1

\* release_node_handle: the page leaves the file's page count; the bytes it
\* keeps are no part of the tree and are dropped from the model
release_node_handle(ix, p) ==
    [ix EXCEPT !.num_pages = @ - 1, !.nodes[p] = FreshNode]

\* an erase_leaf that leaves the prev_leaf of the successor as it was
erase_leaf_next_only(nodes, leaf) ==
    [nodes EXCEPT ![nodes[leaf].prev_leaf].next_leaf = nodes[leaf].next_leaf]

erase_leaf(nodes, leaf) ==
    LET n1 == [nodes EXCEPT ![nodes[leaf].prev_leaf].next_leaf =
                                nodes[leaf].next_leaf]
    IN [n1 EXCEPT ![n1[leaf].next_leaf].prev_leaf = n1[leaf].prev_leaf]

\* an adjust_root that keeps an internal root with a single child
adjust_root_keep(ix, old_root) ==
    LET node == ix.nodes[old_root]
    IN IF node.is_leaf /\ get_size(node) = 0
       THEN release_node_handle([ix EXCEPT !.root_page = IX_NO_PAGE], old_root)
       ELSE ix

adjust_root(ix, old_root) ==
    LET node == ix.nodes[old_root]
    IN IF ~node.is_leaf /\ get_size(node) = 1
       THEN LET child == value_at(node, 0)
            IN release_node_handle(
                 [ix EXCEPT !.nodes[child].parent = IX_NO_PAGE,
                            !.root_page = child], old_root)
       ELSE IF node.is_leaf /\ get_size(node) = 0
       THEN release_node_handle([ix EXCEPT !.root_page = IX_NO_PAGE], old_root)
       ELSE ix

redistribute(ix, neighbor, p, par, index) ==
    LET nb == ix.nodes[neighbor]
        node == ix.nodes[p]
    IN IF index = 0
       THEN LET node1 == insert_pairs(node, get_size(node),
                            <<get_key(nb, 0)>>, <<get_rid(nb, 0)>>)
                nb1 == erase_pair(nb, 0)
                n1 == [ix.nodes EXCEPT
                         ![p] = node1, ![neighbor] = nb1,
                         ![par].keys[index + 2] = get_key(nb1, 0)]
            IN [ix EXCEPT !.nodes =
                    maintain_children(n1, p, get_size(node1) - 1,
                                      get_size(node1))]
       ELSE LET last_idx == get_size(nb) - 1
                node1 == insert_pairs(node, 0, <<get_key(nb, last_idx)>>,
                                      <<get_rid(nb, last_idx)>>)
                nb1 == erase_pair(nb, last_idx)
                n1 == [ix.nodes EXCEPT
                         ![p] = node1, ![neighbor] = nb1,
                         ![par].keys[index + 1] = get_key(node1, 0)]
            IN [ix EXCEPT !.nodes = maintain_children(n1, p, 0, 1)]

\* the merge branch of coalesce_or_redistribute: the right node of the pair
\* (dead) is appended to the left one (keep) and erased from the parent
merge_into(ix, keep, dead, par, dead_idx) ==
    LET keep_size == get_size(ix.nodes[keep])
        dead_node == ix.nodes[dead]
        n1 == [ix.nodes EXCEPT ![keep] =
                 insert_pairs(@, keep_size, dead_node.keys, dead_node.rids)]
        n2 == maintain_children(n1, keep, keep_size,
                                keep_size + get_size(dead_node))
        n3 == IF dead_node.is_leaf THEN erase_leaf(n2, dead) ELSE n2
        ix1 == [ix EXCEPT !.nodes = n3,
                          !.last_leaf = IF dead_node.is_leaf /\ @ = dead
                                        THEN keep ELSE @]
    IN [release_node_handle(ix1, dead) EXCEPT
            !.nodes[par] = erase_pair(@, dead_idx)]

RECURSIVE coalesce_or_redistribute(_, _)
coalesce_or_redistribute(ix, p) ==
    LET node == ix.nodes[p]
    IN IF is_root_page(node) THEN adjust_root(ix, p)
       ELSE IF get_size(node) >= get_min_size(ix) THEN ix
       ELSE LET par == node.parent
                node_idx == find_child(ix.nodes[par], p)
                neighbor_idx == IF node_idx > 0 THEN node_idx - 1
                                ELSE node_idx + 1
                neighbor == value_at(ix.nodes[par], neighbor_idx)
            IN IF get_size(node) + get_size(ix.nodes[neighbor])
                      >= get_min_size(ix) * 2
               THEN redistribute(ix, neighbor, p, par, node_idx)
               ELSE IF node_idx = 0
               THEN coalesce_or_redistribute(
                        merge_into(ix, p, neighbor, par, neighbor_idx), par)
               ELSE coalesce_or_redistribute(
                        merge_into(ix, neighbor, p, par, node_idx), par)

delete_entry(ix, key) ==
    LET leaf == find_leaf_page(ix, ix.root_page, key)
        removed == node_remove(ix.nodes[leaf], key)
    IN IF get_size(removed) = get_size(ix.nodes[leaf]) THEN ix
       ELSE LET n1 == [ix.nodes EXCEPT ![leaf] = removed]
                n2 == IF get_size(removed) > 0 THEN maintain_parent(n1, leaf)
                      ELSE n1
            IN coalesce_or_redistribute([ix EXCEPT !.nodes = n2], leaf)

(***************************************************************************)
(* Heap file (RmFileHandle, RmScan)                                        *)
(***************************************************************************)
RM_NO_PAGE == -1

RM_FIRST_RECORD_PAGE == 1

\* file_hdr_.num_records_per_page
NumRecordsPerPage == 2

\* data pages the heap file may grow to
MaxHeapPages == 2

\* values of the table's INT column a (the record payload)
Vals == {1, 2}

HeapPages == RM_FIRST_RECORD_PAGE..MaxHeapPages

Slots == 0..(NumRecordsPerPage - 1)

Rids == HeapPages \X Slots

INVALID_RID == <<-1, -1>>

\* a page as new_page hands it out
FreshPage ==
    [num_records |-> 0, next_free_page_no |-> 0,
     bitmap |-> [s \in Slots |-> FALSE], slots |-> [s \in Slots |-> 0]]

\* the heap file as RmManager::create_file writes it: the header page only
NewFile ==
    [num_pages |-> 1, first_free_page_no |-> RM_NO_PAGE,
     pages |-> [p \in HeapPages |-> FreshPage]]

\* Bitmap::first_bit(false, bitmap, n)
first_bit(bitmap) ==
    IF \E s \in Slots : ~bitmap[s]
    THEN CHOOSE s \in Slots : ~bitmap[s] /\ \A u \in Slots : ~bitmap[u] => s <= u
    ELSE NumRecordsPerPage

\* Bitmap::next_bit(true, bitmap, n, curr): first set bit after curr
next_bit(bitmap, curr) ==
    IF \E s \in Slots : s > curr /\ bitmap[s]
    THEN CHOOSE s \in Slots :
            s > curr /\ bitmap[s] /\ \A u \in Slots : (u > curr /\ bitmap[u]) => s <= u
    ELSE NumRecordsPerPage

page_exists(fh, page_no) ==
    page_no >= RM_FIRST_RECORD_PAGE /\ page_no < fh.num_pages

create_new_page_handle(fh) ==
    [fh EXCEPT !.pages[fh.num_pages] =
                   [FreshPage EXCEPT !.next_free_page_no = fh.first_free_page_no],
               !.first_free_page_no = fh.num_pages,
               !.num_pages = @ + 1]

\* create_page_handle: [fh, page_no]
create_page_handle(fh) ==
    IF fh.first_free_page_no = RM_NO_PAGE
    THEN [fh |-> create_new_page_handle(fh), page_no |-> fh.num_pages]
    ELSE [fh |-> fh, page_no |-> fh.first_free_page_no]

\* insert_record(buf, context): [fh, rid]
insert_record(fh, buf) ==
    LET ph == create_page_handle(fh)
        pn == ph.page_no
        page == ph.fh.pages[pn]
        slot_no == first_bit(page.bitmap)
    IN IF slot_no >= NumRecordsPerPage
       THEN [fh |-> ph.fh, rid |-> INVALID_RID]
       ELSE LET p1 == [page EXCEPT !.slots[slot_no] = buf,
                                   !.bitmap[slot_no] = TRUE,
                                   !.num_records = @ + 1]
                full == p1.num_records = NumRecordsPerPage
            IN [fh |-> [ph.fh EXCEPT
                          !.pages[pn] =
                              IF full
                              THEN [p1 EXCEPT !.next_free_page_no = RM_NO_PAGE]
                              ELSE p1,
                          !.first_free_page_no =
                              IF full THEN p1.next_free_page_no ELSE @],
                rid |-> <<pn, slot_no>>]

\* insert_record(rid, buf): the undo of a delete
insert_record_at(fh, rid, buf) ==
    IF ~page_exists(fh, rid[1]) THEN [fh |-> fh, err |-> "PAGE_NOT_EXIST"]
    ELSE [fh |-> [fh EXCEPT !.pages[rid[1]] =
                    [@ EXCEPT !.slots[rid[2]] = buf,
                              !.bitmap[rid[2]] = TRUE,
                              !.num_records = @ + 1]],
          err |-> "OK"]

release_page_handle(fh, page_no) ==
    [fh EXCEPT !.pages[page_no].next_free_page_no = fh.first_free_page_no,
               !.first_free_page_no = page_no]

\* delete_record without its lock request
delete_record(fh, rid) ==
    IF ~page_exists(fh, rid[1]) THEN [fh |-> fh, err |-> "PAGE_NOT_EXIST"]
    ELSE IF ~fh.pages[rid[1]].bitmap[rid[2]]
    THEN [fh |-> fh, err |-> "RECORD_NOT_FOUND"]
    ELSE LET was_full == fh.pages[rid[1]].num_records = NumRecordsPerPage
             fh1 == [fh EXCEPT !.pages[rid[1]] =
                        [@ EXCEPT !.bitmap[rid[2]] = FALSE,
                                  !.num_records = @ - 1]]
         IN [fh |-> IF was_full THEN release_page_handle(fh1, rid[1]) ELSE fh1,
             err |-> "OK"]

\* update_record without its lock request
update_record(fh, rid, buf) ==
    IF ~page_exists(fh, rid[1]) THEN [fh |-> fh, err |-> "PAGE_NOT_EXIST"]
    ELSE IF ~fh.pages[rid[1]].bitmap[rid[2]]
    THEN [fh |-> fh, err |-> "RECORD_NOT_FOUND"]
    ELSE [fh |-> [fh EXCEPT !.pages[rid[1]].slots[rid[2]] = buf],
          err |-> "OK"]

\* RmScan::next from position (page_no, slot_no): the next rid, or
\* (RM_NO_PAGE, RM_NO_PAGE) at the end
RECURSIVE scan_next(_, _, _)
scan_next(fh, page_no, slot_no) ==
    IF page_no >= RM_FIRST_RECORD_PAGE /\ page_no < fh.num_pages
    THEN LET next_slot == next_bit(fh.pages[page_no].bitmap, slot_no)
         IN IF next_slot < NumRecordsPerPage THEN <<page_no, next_slot>>
            ELSE scan_next(fh, page_no + 1, -1)
    ELSE <<RM_NO_PAGE, RM_NO_PAGE>>

(***************************************************************************)
(* Transaction manager: the undo loop and the release of all locks         *)
(***************************************************************************)
WriteRecord(w, rid, rec) == [wtype |-> w, rid |-> rid, rec |-> rec]

\* the loop of abort over write_set, last record first; a record is popped
\* before its undo runs, and an exception of the heap file leaves the loop:
\* [fh, ws, err]
RECURSIVE undo(_, _)
undo(f, ws) ==
    IF ws = <<>> THEN [fh |-> f, ws |-> ws, err |-> "OK"]
    ELSE LET wr == ws[Len(ws)]
             rest == SubSeq(ws, 1, Len(ws) - 1)
             r == CASE wr.wtype = "INSERT_TUPLE" -> delete_record(f, wr.rid)
                    [] wr.wtype = "DELETE_TUPLE" ->
                           insert_record_at(f, wr.rid, wr.rec)
                    [] wr.wtype = "UPDATE_TUPLE" ->
                           update_record(f, wr.rid, wr.rec)
         IN IF r.err # "OK" THEN [fh |-> r.fh, ws |-> rest, err |-> r.err]
            ELSE undo(r.fh, rest)

\* a release of the row locks that leaves the table lock in its queue
unlock_all_rows(lt, t, ids) ==
    [id \in DOMAIN lt |->
        IF id \in ids /\ id # TAB THEN unlock(lt[id], t).q ELSE lt[id]]

\* "for (id : *lock_set) lock_manager_->unlock(txn, id)"
unlock_all(lt, t, ids) ==
    [id \in DOMAIN lt |-> IF id \in ids THEN unlock(lt[id], t).q ELSE lt[id]]

(***************************************************************************)
(* Executors.  An executor works on a context c: the transaction, the lock *)
(* table, the transaction's lock set and write set, the heap file and the  *)
(* index; c.err is the exception that ended the run, "OK" when none did.   *)
(***************************************************************************)
Ctx(t) ==
    [t |-> t, state |-> txn_state[t], lt |-> lock_table, ls |-> lock_set[t],
     ws |-> write_set[t], fh |-> fh_, ix |-> ih_, err |-> "OK"]

\* a lock call that overlooks the state of the transaction
Locked_any_state(c, id, r) ==
    [c EXCEPT !.lt[id] = r.q,
              !.ls = IF r.ins THEN @ \cup {id} ELSE @,
              !.err = r.err]

\* a call of the lock manager from a context: every lock function first
\* refuses a SHRINKING transaction, then works on the queue of the id;
\* r is what the function makes of that queue
Locked(c, id, r) ==
    IF c.state = "SHRINKING" THEN [c EXCEPT !.err = "LOCK_ON_SHRINKING"]
    ELSE [c EXCEPT !.lt[id] = r.q,
                   !.ls = IF r.ins THEN @ \cup {id} ELSE @,
                   !.err = r.err]

\* RmFileHandle::get_record(rid, context)
get_record(c, rid) ==
    LET c1 == Locked(c, rid, lock_shared_on_record(c.lt[rid], c.t))
    IN IF c1.err # "OK" THEN c1
       ELSE IF ~page_exists(c1.fh, rid[1]) THEN [c1 EXCEPT !.err = "PAGE_NOT_EXIST"]
       ELSE IF ~c1.fh.pages[rid[1]].bitmap[rid[2]]
       THEN [c1 EXCEPT !.err = "RECORD_NOT_FOUND"]
       ELSE c1

\* RmFileHandle::delete_record(rid, context)
ctx_delete_record(c, rid) ==
    LET c1 == Locked(c, rid, lock_exclusive_on_record(c.lt[rid], c.t))
    IN IF c1.err # "OK" THEN c1
       ELSE LET r == delete_record(c1.fh, rid)
            IN [c1 EXCEPT !.fh = r.fh, !.err = r.err]

\* an update_record that gives its row lock back once the record is written
ctx_update_record_release(c, rid, buf) ==
    LET c1 == Locked(c, rid, lock_exclusive_on_record(c.lt[rid], c.t))
    IN IF c1.err # "OK" THEN c1
       ELSE LET r == update_record(c1.fh, rid, buf)
            IN [c1 EXCEPT !.fh = r.fh, !.err = r.err,
                          !.lt[rid] = unlock(@, c.t).q]

\* RmFileHandle::update_record(rid, buf, context)
ctx_update_record(c, rid, buf) ==
    LET c1 == Locked(c, rid, lock_exclusive_on_record(c.lt[rid], c.t))
    IN IF c1.err # "OK" THEN c1
       ELSE LET r == update_record(c1.fh, rid, buf)
            IN [c1 EXCEPT !.fh = r.fh, !.err = r.err]

\* "ihs_.at(index name)" followed by the calls on the handle; a tree whose
\* root_page is IX_NO_PAGE makes fetch_node read page -1: "NO_ROOT" marks
\* that run, which the model does not follow further
ix_delete(c, key) ==
    IF ~ihs_ THEN [c EXCEPT !.err = "out_of_range"]
    ELSE IF c.ix.root_page = IX_NO_PAGE THEN [c EXCEPT !.err = "NO_ROOT"]
    ELSE [c EXCEPT !.ix = delete_entry(@, key)]

ix_insert(c, key, rid) ==
    IF ~ihs_ THEN [c EXCEPT !.err = "out_of_range"]
    ELSE IF c.ix.root_page = IX_NO_PAGE THEN [c EXCEPT !.err = "NO_ROOT"]
    ELSE [c EXCEPT !.ix = insert_entry(@, key, rid)]

\* InsertExecutor::Next with the value v for column a
insert_next(c0, v) ==
    LET c1 == Locked(c0, TAB, lock_IX_on_table(c0.lt[TAB], c0.t))
    IN IF c1.err # "OK" THEN c1
       ELSE LET r == insert_record(c1.fh, v)
                c2 == [c1 EXCEPT !.fh = r.fh,
                                 !.ws = Append(@, WriteRecord("INSERT_TUPLE", r.rid, 0))]
            IN IF indexes THEN ix_insert(c2, v, r.rid) ELSE c2

\* the loop of DeleteExecutor::Next over rids_
RECURSIVE delete_rids(_, _)
delete_rids(c, rids) ==
    IF c.err # "OK" \/ rids = <<>> THEN c
    ELSE LET rid == Head(rids)
             c1 == get_record(c, rid)
         IN IF c1.err # "OK" THEN c1
            ELSE LET rec == c1.fh.pages[rid[1]].slots[rid[2]]
                     c2 == [c1 EXCEPT !.ws =
                               Append(@, WriteRecord("DELETE_TUPLE", rid, rec))]
                     c3 == IF indexes THEN ix_delete(c2, rec) ELSE c2
                     c4 == IF c3.err # "OK" THEN c3 ELSE ctx_delete_record(c3, rid)
                 IN delete_rids(c4, Tail(rids))

delete_next(c0, rids) ==
    LET c1 == Locked(c0, TAB, lock_IX_on_table(c0.lt[TAB], c0.t))
    IN delete_rids(c1, rids)

\* the loop of UpdateExecutor::Next over rids_, with the clause "set a = v"
RECURSIVE update_rids(_, _, _)
update_rids(c, rids, v) ==
    IF c.err # "OK" \/ rids = <<>> THEN c
    ELSE LET rid == Head(rids)
             c1 == get_record(c, rid)
         IN IF c1.err # "OK" THEN c1
            ELSE LET old_rec == c1.fh.pages[rid[1]].slots[rid[2]]
                     c2 == [c1 EXCEPT !.ws =
                               Append(@, WriteRecord("UPDATE_TUPLE", rid, old_rec))]
                     c3 == IF indexes THEN ix_delete(c2, old_rec) ELSE c2
                     c4 == IF indexes /\ c3.err = "OK" THEN ix_insert(c3, v, rid)
                           ELSE c3
                     c5 == IF c4.err # "OK" THEN c4
                           ELSE ctx_update_record(c4, rid, v)
                 IN update_rids(c5, Tail(rids), v)

update_next(c0, rids, v) ==
    LET c1 == Locked(c0, TAB, lock_IX_on_table(c0.lt[TAB], c0.t))
    IN update_rids(c1, rids, v)

CompOps == {"OP_EQ", "OP_NE", "OP_LT", "OP_GT", "OP_LE", "OP_GE"}

\* SeqScanExecutor::compare_values on the INT column
compare_values(lhs, rhs, op) ==
    LET cmp_result == IF lhs < rhs THEN -1 ELSE IF lhs > rhs THEN 1 ELSE 0
    IN CASE op = "OP_EQ" -> cmp_result = 0
         [] op = "OP_NE" -> cmp_result # 0
         [] op = "OP_LT" -> cmp_result < 0
         [] op = "OP_GT" -> cmp_result > 0
         [] op = "OP_LE" -> cmp_result <= 0
         [] op = "OP_GE" -> cmp_result >= 0

\* a check_conditions that stops after the first condition of the list
check_conditions_first(rec, conds) ==
    conds = <<>> \/ compare_values(rec, conds[1].rhs, conds[1].op)

\* SeqScanExecutor::check_conditions: conds is a sequence of [op, rhs]
check_conditions(rec, conds) ==
    \A i \in 1..Len(conds) : compare_values(rec, conds[i].rhs, conds[i].op)

\* the loops of beginTuple / nextTuple from the scan position rid, driven
\* to the end of the file; out collects the rids that satisfy conds
RECURSIVE scan_rids(_, _, _, _)
scan_rids(c, rid, conds, out) ==
    IF c.err # "OK" \/ rid[1] = RM_NO_PAGE THEN [c |-> c, out |-> out]
    ELSE LET c1 == get_record(c, rid)
         IN IF c1.err # "OK" THEN [c |-> c1, out |-> out]
            ELSE scan_rids(c1, scan_next(c1.fh, rid[1], rid[2]), conds,
                           IF check_conditions(c1.fh.pages[rid[1]].slots[rid[2]], conds)
                           THEN Append(out, rid) ELSE out)

\* a scan that reads the rows without the IS lock on the table
seq_scan_rows_only(c0, conds) ==
    scan_rids(c0, scan_next(c0.fh, RM_FIRST_RECORD_PAGE, -1), conds, <<>>)

\* beginTuple, then nextTuple until is_end
seq_scan(c0, conds) ==
    LET c1 == Locked(c0, TAB, lock_IS_on_table(c0.lt[TAB], c0.t))
    IN IF c1.err # "OK" THEN [c |-> c1, out |-> <<>>]
       ELSE scan_rids(c1, scan_next(c1.fh, RM_FIRST_RECORD_PAGE, -1), conds, <<>>)

(***************************************************************************)
(* State machine                                                           *)
(***************************************************************************)
\* transactions begun in one behaviour
MaxTxnId == 3

\* data pages the heap file grows to under concurrent clients
ConcHeapPages == 1

\* write records one transaction may hold
MaxWrites == 2

\* keys and rids of the B+tree specification
MaxKey == 8

Keys == 1..MaxKey

\* the rid a caller passes with key k: <<k, 0>> when it believes k absent,
\* <<k, 1>> when it inserts k again
TreeRid(k) == IF k \in DOMAIN ix_map THEN <<k, 1>> ELSE <<k, 0>>

AllLockIds == {TAB} \cup Rids

Active == {"GROWING", "SHRINKING"}

\* exceptions that make the client abort: TransactionAbortException
AbortErrs == {"DEADLOCK_PREVENTION", "LOCK_ON_SHRINKING"}

\* exceptions after which the client runs nothing but a rollback: those
\* above, and the std::out_of_range of ihs_.at, which is no RMDBError
MustAbort(err) == err \in AbortErrs \cup {"out_of_range"}

NoScan == [done |-> FALSE, rids |-> <<>>]

\* WHERE clauses of the statements: none, or a = v
Conds == {<<>>} \cup {<<[op |-> "OP_EQ", rhs |-> v]>> : v \in Vals}

Init ==
    /\ lock_table = [id \in AllLockIds |-> EmptyQueue]
    /\ txn_state = [t \in Txns |-> "DEFAULT"]
    /\ lock_set = [t \in Txns |-> {}]
    /\ write_set = [t \in Txns |-> <<>>]
    /\ failed = [t \in Txns |-> FALSE]
    /\ next_txn_id = 0
    /\ fh_ = NewFile
    /\ indexes \in BOOLEAN
    /\ ihs_ = indexes
    /\ ih_ = NewIndex(MaxSize)
    /\ scan_ = [t \in Txns |-> NoScan]
    /\ ix_map = <<>>
    /\ snap = [fh |-> NewFile, ix |-> NewIndex(MaxSize)]
    /\ last = [op |-> "init", txn |-> 0, id |-> TAB, res |-> "OK"]
    /\ root_latch_ = 0
    /\ pc = [th \in Threads |-> Idle]
    /\ pin_count_ = [p \in IxPages |-> 0]
    /\ exec_ = NoPlan
    /\ sm_ = NewDb

dbvars == <<fh_, indexes, ihs_, ih_>>

\* TransactionManager::begin(nullptr): a new transaction on connection t
BeginTxn(t) ==
    /\ txn_state[t] \notin Active
    /\ next_txn_id < MaxTxnId
    /\ next_txn_id' = next_txn_id + 1
    /\ txn_state' = [txn_state EXCEPT ![t] = "GROWING"]
    /\ last' = [op |-> "begin", txn |-> t, id |-> TAB, res |-> "OK"]
    /\ UNCHANGED <<lock_table, lock_set, write_set, failed, dbvars, scan_, ix_map,
                   callvars>>

\* concurrent clients: every connection runs one transaction
Begin(t) ==
    /\ txn_state[t] = "DEFAULT"
    /\ BeginTxn(t)
    /\ UNCHANGED snap

\* TransactionManager::commit
commit(t) ==
    /\ write_set' = [write_set EXCEPT ![t] = <<>>]
    /\ lock_table' = unlock_all(lock_table, t, lock_set[t])
    /\ lock_set' = [lock_set EXCEPT ![t] = {}]
    /\ txn_state' = [txn_state EXCEPT ![t] = "COMMITTED"]
    /\ scan_' = [scan_ EXCEPT ![t] = NoScan]
    /\ last' = [op |-> "commit", txn |-> t, id |-> TAB, res |-> "OK"]
    /\ UNCHANGED <<failed, next_txn_id, dbvars, ix_map, snap,
                   callvars>>

\* the commit of a client: of its running transaction, when no statement
\* of it was aborted
Commit(t) ==
    /\ txn_state[t] \in Active
    /\ ~failed[t]
    /\ commit(t)

\* TransactionManager::abort; when the undo loop throws, the transaction
\* keeps its state and its locks, and the client can only call abort again
abort(t) ==
    /\ LET u == undo(fh_, write_set[t])
       IN /\ fh_' = u.fh
          /\ write_set' = [write_set EXCEPT ![t] = u.ws]
          /\ last' = [op |-> "abort", txn |-> t, id |-> TAB, res |-> u.err]
          /\ IF u.err = "OK"
             THEN /\ lock_table' = unlock_all(lock_table, t, lock_set[t])
                  /\ lock_set' = [lock_set EXCEPT ![t] = {}]
                  /\ txn_state' = [txn_state EXCEPT ![t] = "ABORTED"]
                  /\ failed' = [failed EXCEPT ![t] = FALSE]
                  /\ scan_' = [scan_ EXCEPT ![t] = NoScan]
             ELSE /\ failed' = [failed EXCEPT ![t] = TRUE]
                  /\ UNCHANGED <<lock_table, lock_set, txn_state, scan_>>
    /\ UNCHANGED <<next_txn_id, indexes, ihs_, ih_, ix_map, snap,
                   callvars>>

\* the rollback of a client: of its running transaction
Abort(t) ==
    /\ txn_state[t] \in Active
    /\ abort(t)

\* the state an executor run leaves behind
Apply(t, c, op) ==
    /\ c.err # "NO_ROOT"
    /\ c.ix.next_page_no <= MaxIxPages + 1
    /\ Len(c.ws) <= MaxWrites
    /\ lock_table' = c.lt
    /\ lock_set' = [lock_set EXCEPT ![t] = c.ls]
    /\ write_set' = [write_set EXCEPT ![t] = c.ws]
    /\ fh_' = c.fh
    /\ ih_' = c.ix
    /\ failed' = [failed EXCEPT ![t] = MustAbort(c.err)]
    /\ last' = [op |-> op, txn |-> t, id |-> TAB, res |-> c.err]
    /\ UNCHANGED <<txn_state, next_txn_id, indexes, ihs_, ix_map, snap,
                   callvars>>

CanRun(t) == txn_state[t] \in Active /\ ~failed[t]

\* "insert into t values (v)" while the file has at most max_pages data pages
InsertInto(t, v, max_pages) ==
    /\ CanRun(t)
    /\ fh_.first_free_page_no # RM_NO_PAGE \/ fh_.num_pages <= max_pages
    /\ Apply(t, insert_next(Ctx(t), v), "insert")
    /\ UNCHANGED scan_

InsertExec(t, v) == InsertInto(t, v, MaxHeapPages)

\* the insert of concurrent clients
ConcInsertExec(t, v) == InsertInto(t, v, ConcHeapPages)

\* the scan under a select, delete or update statement
ScanExec(t, conds) ==
    /\ CanRun(t)
    /\ LET r == seq_scan(Ctx(t), conds)
       IN /\ Apply(t, r.c, "scan")
          /\ scan_' = [scan_ EXCEPT ![t] =
                          IF r.c.err = "OK" THEN [done |-> TRUE, rids |-> r.out]
                          ELSE NoScan]

\* "delete from t where ...": DeleteExecutor::Next on the scanned rids
DeleteExec(t) ==
    /\ CanRun(t)
    /\ scan_[t].done
    /\ Apply(t, delete_next(Ctx(t), scan_[t].rids), "delete")
    /\ scan_' = [scan_ EXCEPT ![t] = NoScan]

\* "update t set a = v where ...": UpdateExecutor::Next on the scanned rids
UpdateExec(t, v) ==
    /\ CanRun(t)
    /\ scan_[t].done
    /\ Apply(t, update_next(Ctx(t), scan_[t].rids, v), "update")
    /\ scan_' = [scan_ EXCEPT ![t] = NoScan]

\* SmManager::create_index on column a
CreateIndex(t) ==
    /\ CanRun(t)
    /\ LET c == Locked(Ctx(t), TAB, lock_IX_on_table(lock_table[TAB], t))
           res == IF c.err # "OK" THEN c.err
                  ELSE IF indexes THEN "INDEX_EXISTS" ELSE "OK"
       IN /\ lock_table' = c.lt
          /\ lock_set' = [lock_set EXCEPT ![t] = c.ls]
          /\ failed' = [failed EXCEPT ![t] = c.err \in AbortErrs]
          /\ indexes' = (indexes \/ res = "OK")
          /\ ih_' = IF res = "OK" THEN NewIndex(ih_.max_size) ELSE ih_
          /\ last' = [op |-> "create_index", txn |-> t, id |-> TAB, res |-> res]
    /\ UNCHANGED <<txn_state, write_set, next_txn_id, fh_, ihs_, scan_, ix_map, snap,
                   callvars>>

\* close_db and open_db with no transaction running: ihs_ is rebuilt from
\* the table's metadata
Reopen ==
    /\ \A t \in Txns : txn_state[t] \notin Active
    /\ ihs_ # indexes
    /\ ihs_' = indexes
    /\ last' = [op |-> "open_db", txn |-> 0, id |-> TAB, res |-> "OK"]
    /\ UNCHANGED <<lock_table, txn_state, lock_set, write_set, failed,
                   next_txn_id, fh_, indexes, ih_, scan_, ix_map, snap,
                   callvars>>

Next ==
    \/ \E t \in Txns : Begin(t)
    \/ \E t \in Txns : Commit(t)
    \/ \E t \in Txns : Abort(t)
    \/ \E t \in Txns, v \in Vals : ConcInsertExec(t, v)
    \/ \E t \in Txns, conds \in Conds : ScanExec(t, conds)
    \/ \E t \in Txns : DeleteExec(t)
    \/ \E t \in Txns, v \in Vals : UpdateExec(t, v)

Spec == Init /\ [][Next]_vars

(***************************************************************************)
(* One client: connection 1 runs one transaction after the other; snap     *)
(* keeps the heap and the index at the begin of the running transaction    *)
(***************************************************************************)
SerialBegin(t) ==
    /\ t = 1
    /\ \A u \in Txns : txn_state[u] \notin Active
    /\ BeginTxn(t)
    /\ snap' = [fh |-> fh_, ix |-> ih_]

NextSerial ==
    \/ \E t \in Txns : SerialBegin(t)
    \/ \E t \in Txns : Commit(t)
    \/ \E t \in Txns : Abort(t)
    \/ \E t \in Txns, v \in Vals : InsertExec(t, v)
    \/ \E t \in Txns, conds \in Conds : ScanExec(t, conds)
    \/ \E t \in Txns : DeleteExec(t)
    \/ \E t \in Txns, v \in Vals : UpdateExec(t, v)
    \/ \E t \in Txns : CreateIndex(t)
    \/ Reopen

SpecSerial == Init /\ [][NextSerial]_vars

(***************************************************************************)
(* The lock manager alone: its seven entry points called directly by the   *)
(* running transactions, as a test driver of the lock manager calls them   *)
(***************************************************************************)
lock_call(t, id, r, op) ==
    /\ LET c == Locked(Ctx(t), id, r)
       IN /\ lock_table' = c.lt
          /\ lock_set' = [lock_set EXCEPT ![t] = c.ls]
          /\ last' = [op |-> op, txn |-> t, id |-> id, res |-> c.err]
    /\ UNCHANGED <<txn_state, write_set, failed, next_txn_id, dbvars, scan_,
                   ix_map, snap,
                   callvars>>

\* the call of a lock function by a running transaction
LockCall(t, id, r, op) ==
    /\ txn_state[t] \in Active
    /\ lock_call(t, id, r, op)

LockSharedOnRecord(t, rid) ==
    LockCall(t, rid, lock_shared_on_record(lock_table[rid], t),
             "lock_shared_on_record")

LockExclusiveOnRecord(t, rid) ==
    LockCall(t, rid, lock_exclusive_on_record(lock_table[rid], t),
             "lock_exclusive_on_record")

LockSharedOnTable(t) ==
    LockCall(t, TAB, lock_shared_on_table(lock_table[TAB], t),
             "lock_shared_on_table")

LockExclusiveOnTable(t) ==
    LockCall(t, TAB, lock_exclusive_on_table(lock_table[TAB], t),
             "lock_exclusive_on_table")

LockISOnTable(t) ==
    LockCall(t, TAB, lock_IS_on_table(lock_table[TAB], t), "lock_IS_on_table")

LockIXOnTable(t) ==
    LockCall(t, TAB, lock_IX_on_table(lock_table[TAB], t), "lock_IX_on_table")

\* LockManager::unlock(txn, id)
unlock_call(t, id) ==
    /\ LET r == unlock(lock_table[id], t)
       IN /\ lock_table' = [lock_table EXCEPT ![id] = r.q]
          /\ txn_state' = [txn_state EXCEPT ![t] =
                              IF r.found THEN "SHRINKING" ELSE @]
          /\ last' = [op |-> "unlock", txn |-> t, id |-> id,
                      res |-> IF r.found THEN "true" ELSE "false"]
    /\ UNCHANGED <<lock_set, write_set, failed, next_txn_id, dbvars, scan_,
                   ix_map, snap,
                   callvars>>

\* unlock called by a running transaction
Unlock(t, id) ==
    /\ txn_state[t] \in Active
    /\ unlock_call(t, id)

\* a connection of the driver begins its next transaction
LockBegin(t) == BeginTxn(t) /\ UNCHANGED snap

NextLock ==
    \/ \E t \in Txns : LockBegin(t)
    \/ \E t \in Txns, rid \in LockRows : LockSharedOnRecord(t, rid)
    \/ \E t \in Txns, rid \in LockRows : LockExclusiveOnRecord(t, rid)
    \/ \E t \in Txns : LockSharedOnTable(t)
    \/ \E t \in Txns : LockExclusiveOnTable(t)
    \/ \E t \in Txns : LockISOnTable(t)
    \/ \E t \in Txns : LockIXOnTable(t)
    \/ \E t \in Txns, id \in LockIds : Unlock(t, id)
    \/ \E t \in Txns : Commit(t)
    \/ \E t \in Txns : Abort(t)

SpecLock == Init /\ [][NextLock]_vars

(***************************************************************************)
(* The B+tree alone: insert_entry, delete_entry and get_value called on    *)
(* one index handle; ix_map is the map the calls should implement.  A call *)
(* on a tree whose root_page is IX_NO_PAGE reads page -1 and is not        *)
(* followed.                                                               *)
(***************************************************************************)
TreeInsert(k) ==
    /\ ih_.root_page # IX_NO_PAGE
    /\ LET r == insert_entry(ih_, k, TreeRid(k))
       IN /\ r.next_page_no <= MaxIxPages + 1
          /\ ih_' = r
    /\ ix_map' = IF k \in DOMAIN ix_map THEN ix_map ELSE ix_map @@ (k :> TreeRid(k))
    /\ last' = [op |-> "insert_entry", txn |-> 0, id |-> TAB, res |-> "OK"]
    /\ UNCHANGED <<lock_table, txn_state, lock_set, write_set, failed,
                   next_txn_id, fh_, indexes, ihs_, scan_, snap,
                   callvars>>

TreeDelete(k) ==
    /\ ih_.root_page # IX_NO_PAGE
    /\ ih_' = delete_entry(ih_, k)
    /\ ix_map' = [x \in DOMAIN ix_map \ {k} |-> ix_map[x]]
    /\ last' = [op |-> "delete_entry", txn |-> 0, id |-> TAB,
                res |-> IF k \in DOMAIN ix_map THEN "true" ELSE "false"]
    /\ UNCHANGED <<lock_table, txn_state, lock_set, write_set, failed,
                   next_txn_id, fh_, indexes, ihs_, scan_, snap,
                   callvars>>

TreeGetValue(k) ==
    /\ ih_.root_page # IX_NO_PAGE
    /\ last' = [op |-> "get_value", txn |-> 0, id |-> TAB,
                res |-> IF get_value(ih_, k).found THEN "true" ELSE "false"]
    /\ UNCHANGED <<lock_table, txn_state, lock_set, write_set, failed,
                   next_txn_id, dbvars, scan_, ix_map, snap,
                   callvars>>

NextTree ==
    \/ \E k \in Keys : TreeInsert(k)
    \/ \E k \in Keys : TreeDelete(k)
    \/ \E k \in Keys : TreeGetValue(k)

SpecTree == Init /\ [][NextTree]_vars

(***************************************************************************)
(* Claims                                                                  *)
(***************************************************************************)
\* the leaves of the tree in chain order, from the sentinel's next_leaf
RECURSIVE LeafChain(_, _, _)
LeafChain(ix, p, n) ==
    IF p = IX_LEAF_HEADER_PAGE \/ n = 0 \/ p \notin IxPages THEN <<>>
    ELSE <<p>> \o LeafChain(ix, ix.nodes[p].next_leaf, n - 1)

Compatible(a, b) ==
    \/ a = "IS" /\ b \in {"IS", "IX", "S", "SIX"}
    \/ a = "IX" /\ b \in {"IS", "IX"}
    \/ a = "S" /\ b \in {"IS", "S"}
    \/ a = "SIX" /\ b = "IS"

\* in the lock table lt, t holds a granted request of mode m on id
HoldsIn(lt, t, id, m) ==
    \E i \in 1..Len(lt[id].reqs) :
        /\ lt[id].reqs[i].txn = t
        /\ lt[id].reqs[i].mode = m
        /\ lt[id].reqs[i].granted

Holds(t, id, m) == HoldsIn(lock_table, t, id, m)

\* C1: on every lock id, the granted requests of two different transactions
\* are pairwise compatible.
C1_GrantedCompatible ==
    \A id \in AllLockIds : \A t, u \in Txns : \A m, n \in LockModes :
        (t # u /\ Holds(t, id, m) /\ Holds(u, id, n)) => Compatible(m, n)

\* the order X >= SIX >= {S, IX} >= IS >= NON_LOCK
ModeLeq(a, b) ==
    \/ a = b
    \/ a = "NON_LOCK"
    \/ b = "X"
    \/ a = "IS" /\ b # "NON_LOCK"
    \/ a \in {"S", "IX"} /\ b = "SIX"

\* least upper bound of a set of modes
Join(ms) ==
    CHOOSE j \in LockModes \cup {"NON_LOCK"} :
        /\ \A m \in ms : ModeLeq(m, j)
        /\ \A k \in LockModes \cup {"NON_LOCK"} :
               (\A m \in ms : ModeLeq(m, k)) => ModeLeq(j, k)

GrantedModes(q) ==
    {q.reqs[i].mode : i \in {j \in 1..Len(q.reqs) : q.reqs[j].granted}}

\* C9: the group mode of every queue is the join of the modes of its granted
\* requests, NON_LOCK for a queue without requests.
C9_GroupIsJoin ==
    \A id \in AllLockIds :
        lock_table[id].group = Join(GrantedModes(lock_table[id]))

\* a table queue with the SIX of one transaction's upgrade next to the IS
\* of the other, just after an unlock recomputed the group of a queue
C9_Witness ==
    /\ Len(lock_table[TAB].reqs) = 2
    /\ lock_table[TAB].group = "SIX"
    /\ \E t, u \in Txns : t # u /\ Holds(t, TAB, "SIX") /\ Holds(u, TAB, "IS")
    /\ last.op = "unlock" /\ last.res = "true"

\* the live records of a heap file
Live(f) == {rid \in Rids : page_exists(f, rid[1]) /\ f.pages[rid[1]].bitmap[rid[2]]}

Payload(f, rid) == f.pages[rid[1]].slots[rid[2]]

DataPages(f) == {p \in HeapPages : page_exists(f, p)}

Popcount(bitmap) == Cardinality({s \in Slots : bitmap[s]})

\* the pages reached from first_free_page_no along next_free_page_no
RECURSIVE FreeChain(_, _, _)
FreeChain(f, p, n) ==
    IF p = RM_NO_PAGE \/ n = 0 \/ p \notin HeapPages THEN <<>>
    ELSE <<p>> \o FreeChain(f, f.pages[p].next_free_page_no, n - 1)

FreeList(f) == FreeChain(f, f.first_free_page_no, MaxHeapPages + 1)

Occurrences(seq, x) == Cardinality({i \in 1..Len(seq) : seq[i] = x})

\* the <<key, rid>> entries of the leaves of an index, in chain order
RECURSIVE EntriesOf(_, _)
EntriesOf(ix, leaves) ==
    IF leaves = <<>> THEN <<>>
    ELSE LET node == ix.nodes[Head(leaves)]
         IN [i \in 1..Len(node.keys) |-> <<node.keys[i], node.rids[i]>>]
            \o EntriesOf(ix, Tail(leaves))

IndexEntries(ix) ==
    IF ix.root_page = IX_NO_PAGE THEN <<>>
    ELSE EntriesOf(ix, LeafChain(ix, ix.nodes[IX_LEAF_HEADER_PAGE].next_leaf,
                                 MaxIxPages))

\* every live record of f has exactly one entry in ix, and ix has no other
IndexMatchesHeap(f, ix) ==
    LET es == IndexEntries(ix)
    IN /\ \A rid \in Live(f) : Occurrences(es, <<Payload(f, rid), rid>>) = 1
       /\ \A i \in 1..Len(es) :
              es[i][2] \in Live(f) /\ es[i][1] = Payload(f, es[i][2])

\* the index on column a is in the catalog and its handle is open
IndexOpen == indexes /\ ihs_

\* C2: a transaction that starts with the index matching the heap, runs
\* Insert, Delete and Update executors with the index open and commits,
\* leaves the index matching the heap: one leaf entry (key, rid) per live
\* record and no other entry.
C2_IndexMatchesHeapAfterCommit ==
    (last.op = "commit" /\ IndexOpen /\ IndexMatchesHeap(snap.fh, snap.ix))
        => IndexMatchesHeap(fh_, ih_)

\* what a rollback has to restore: live rids and payloads, page headers,
\* the free-page list and the index entries
Observable(f, ix) ==
    [live |-> [rid \in Live(f) |-> Payload(f, rid)],
     headers |-> [p \in DataPages(f) |->
                     <<f.pages[p].num_records, f.pages[p].bitmap>>],
     free |-> FreeList(f),
     entries |-> IndexEntries(ix)]

\* C3: after begin, any executors and a completed abort of one transaction
\* running alone, the database equals the one at begin.
C3_AbortRestoresSnapshot ==
    (last.op = "abort" /\ last.res = "OK")
        => Observable(fh_, ih_) = Observable(snap.fh, snap.ix)

\* C4: a transaction that starts with the index matching the heap and
\* aborts leaves the index matching the heap.
C4_IndexMatchesHeapAfterAbort ==
    (last.op = "abort" /\ last.res = "OK" /\ IndexOpen
        /\ IndexMatchesHeap(snap.fh, snap.ix))
        => IndexMatchesHeap(fh_, ih_)

\* rids t has inserted and not yet committed or rolled back
UncommittedInserts(t) ==
    {write_set[t][i].rid :
        i \in {j \in 1..Len(write_set[t]) :
                  write_set[t][j].wtype = "INSERT_TUPLE"
                  /\ write_set[t][j].rid \in Rids}}

\* C5: a transaction holds an X lock on every row it has inserted and not
\* yet committed or aborted, and no scan of another transaction returns
\* such a row.
C5_NoDirtyReadOfInsert ==
    \A t \in Txns : \A rid \in UncommittedInserts(t) :
        /\ Holds(t, rid, "X")
        /\ \A u \in Txns \ {t} :
               ~(scan_[u].done
                 /\ \E i \in 1..Len(scan_[u].rids) : scan_[u].rids[i] = rid)

\* C6: on every data page the number of set bits of the bitmap equals
\* num_records, and num_records is at most the records per page.
C6_BitmapCountsRecords ==
    \A p \in DataPages(fh_) :
        /\ Popcount(fh_.pages[p].bitmap) = fh_.pages[p].num_records
        /\ fh_.pages[p].num_records <= NumRecordsPerPage

\* C7: every data page with a free slot is exactly once in the free-page
\* list, every full page is in no list and has next_free_page_no = NONE,
\* and insert_record has returned no invalid rid.
C7_FreeListInvariant ==
    /\ \A p \in DataPages(fh_) :
          IF Popcount(fh_.pages[p].bitmap) < NumRecordsPerPage
          THEN Occurrences(FreeList(fh_), p) = 1
          ELSE /\ Occurrences(FreeList(fh_), p) = 0
               /\ fh_.pages[p].next_free_page_no = RM_NO_PAGE
    /\ \A t \in Txns : \A i \in 1..Len(write_set[t]) :
          write_set[t][i].wtype = "INSERT_TUPLE" => write_set[t][i].rid # INVALID_RID

\* C10: while a transaction stays between begin and commit/abort, every
\* lock it holds stays in the lock table with a mode at least as strong,
\* and its lock set only grows.
C10_Strict2PL ==
    [][\A t \in Txns :
          (txn_state[t] \in Active /\ txn_state'[t] \in Active) =>
              /\ lock_set[t] \subseteq lock_set'[t]
              /\ \A id \in AllLockIds : \A m \in LockModes :
                    HoldsIn(lock_table, t, id, m) =>
                        \E n \in LockModes :
                            ModeLeq(m, n) /\ HoldsIn(lock_table', t, id, n)]_vars

\* a transaction whose Delete upgraded the IS of its scan to IX and the S of
\* a row to X, while the other transaction holds IS on the table
C10_Witness ==
    \E t, u \in Txns : \E rid \in Rids :
        /\ t # u
        /\ last.op = "delete" /\ last.txn = t /\ last.res = "OK"
        /\ Holds(t, TAB, "IX") /\ Holds(t, rid, "X")
        /\ Holds(u, TAB, "IS")
        /\ txn_state[u] \in Active

\* the six lock functions of the lock manager
LockOps ==
    {"lock_shared_on_record", "lock_exclusive_on_record", "lock_shared_on_table",
     "lock_exclusive_on_table", "lock_IS_on_table", "lock_IX_on_table"}

\* C11: every lock request of a transaction that is SHRINKING, of any mode
\* and on any id, also one it holds, fails with LOCK_ON_SHRINKING and leaves
\* every queue and the transaction's lock set as they were.
C11_NoLockWhileShrinking ==
    [][\A t \in Txns :
          (txn_state[t] = "SHRINKING" /\ last'.txn = t /\ last'.op \in LockOps) =>
              /\ last'.res = "LOCK_ON_SHRINKING"
              /\ lock_table' = lock_table
              /\ lock_set' = lock_set]_vars

\* a SHRINKING transaction was refused a lock on an id it still holds, and
\* was refused by lock_exclusive_on_record
C11_Witness ==
    /\ last.op = "lock_exclusive_on_record"
    /\ last.res = "LOCK_ON_SHRINKING"
    /\ last.txn \in Txns
    /\ txn_state[last.txn] = "SHRINKING"
    /\ \E m \in LockModes : Holds(last.txn, last.id, m)

(***************************************************************************)
(* A writer and a reader: connection 1 runs one writing transaction after  *)
(* the other, connection 2 runs transactions that only scan; snap keeps    *)
(* the heap and the index at the begin of the writer's transaction         *)
(***************************************************************************)
WriterBegin(t) ==
    /\ t = 1
    /\ BeginTxn(t)
    /\ snap' = [fh |-> fh_, ix |-> ih_]

ReaderBegin(t) ==
    /\ t = 2
    /\ BeginTxn(t)
    /\ UNCHANGED snap

NextReader ==
    \/ \E t \in Txns : WriterBegin(t)
    \/ \E t \in Txns : ReaderBegin(t)
    \/ \E t \in Txns : Commit(t)
    \/ \E t \in Txns : Abort(t)
    \/ \E t \in Txns, conds \in Conds : ScanExec(t, conds)
    \/ \E t \in {1}, v \in Vals : ConcInsertExec(t, v)
    \/ \E t \in {1} : DeleteExec(t)
    \/ \E t \in {1}, v \in Vals : UpdateExec(t, v)

SpecReader == Init /\ [][NextReader]_vars

\* the live records of a heap file with their payloads
LiveRecords(f) == [rid \in Live(f) |-> Payload(f, rid)]

\* C12: when a Delete or Update executor of the writer has raised an error
\* that aborts the transaction and the abort follows, the heap holds the
\* live records and payloads it held at the begin of the transaction, every
\* page has popcount(bitmap) = num_records, and an index that matched the
\* heap at the begin matches it again.
C12_AbortReversesFailedExecutor ==
    [][(/\ last.txn = 1 /\ last.op \in {"delete", "update"}
        /\ last.res \in AbortErrs
        /\ last'.txn = 1 /\ last'.op = "abort" /\ last'.res = "OK")
       => /\ LiveRecords(fh_') = LiveRecords(snap.fh)
          /\ \A p \in DataPages(fh_') :
                 Popcount(fh_'.pages[p].bitmap) = fh_'.pages[p].num_records
          /\ (IndexOpen /\ IndexMatchesHeap(snap.fh, snap.ix))
                 => IndexMatchesHeap(fh_', ih_')]_vars

(***************************************************************************)
(* The B+tree of an index whose nodes have an odd capacity                 *)
(***************************************************************************)
InitOdd ==
    /\ lock_table = [id \in AllLockIds |-> EmptyQueue]
    /\ txn_state = [t \in Txns |-> "DEFAULT"]
    /\ lock_set = [t \in Txns |-> {}]
    /\ write_set = [t \in Txns |-> <<>>]
    /\ failed = [t \in Txns |-> FALSE]
    /\ next_txn_id = 0
    /\ fh_ = NewFile
    /\ indexes \in BOOLEAN
    /\ ihs_ = indexes
    /\ ih_ = NewIndex(OddMaxSize)
    /\ scan_ = [t \in Txns |-> NoScan]
    /\ ix_map = <<>>
    /\ snap = [fh |-> NewFile, ix |-> NewIndex(OddMaxSize)]
    /\ last = [op |-> "init", txn |-> 0, id |-> TAB, res |-> "OK"]
    /\ root_latch_ = 0
    /\ pc = [th \in Threads |-> Idle]
    /\ pin_count_ = [p \in IxPages |-> 0]
    /\ exec_ = NoPlan
    /\ sm_ = NewDb

SpecTreeOdd == InitOdd /\ [][NextTree]_vars

\* the pages of the tree below and including page p, at most n levels
RECURSIVE Subtree(_, _, _)
Subtree(ix, p, n) ==
    IF n = 0 \/ p \notin IxPages THEN {}
    ELSE IF ix.nodes[p].is_leaf THEN {p}
    ELSE {p} \cup UNION {Subtree(ix, ix.nodes[p].rids[i][1], n - 1) :
                            i \in 1..Len(ix.nodes[p].rids)}

TreePages(ix) ==
    IF ix.root_page = IX_NO_PAGE THEN {}
    ELSE Subtree(ix, ix.root_page, MaxIxPages)

RECURSIVE LeafDepths(_, _, _)
LeafDepths(ix, p, d) ==
    IF d > MaxIxPages \/ p \notin IxPages THEN {-1}
    ELSE IF ix.nodes[p].is_leaf THEN {d}
    ELSE UNION {LeafDepths(ix, ix.nodes[p].rids[i][1], d + 1) :
                  i \in 1..Len(ix.nodes[p].rids)}

\* the leaf reached from page p through the first (last) child of each node
RECURSIVE Leftmost(_, _, _)
Leftmost(ix, p, n) ==
    IF n = 0 \/ ix.nodes[p].is_leaf \/ ix.nodes[p].rids = <<>> THEN p
    ELSE Leftmost(ix, value_at(ix.nodes[p], 0), n - 1)

RECURSIVE Rightmost(_, _, _)
Rightmost(ix, p, n) ==
    IF n = 0 \/ ix.nodes[p].is_leaf \/ ix.nodes[p].rids = <<>> THEN p
    ELSE Rightmost(ix, value_at(ix.nodes[p], get_size(ix.nodes[p]) - 1), n - 1)

\* the chain of leaves from the sentinel's next_leaf
Chain(ix) ==
    LeafChain(ix, ix.nodes[IX_LEAF_HEADER_PAGE].next_leaf, MaxIxPages + 1)

\* C14: while the tree holds a root, all its leaves are at one depth, the
\* next_leaf chain from the sentinel visits every leaf exactly once with
\* keys strictly ascending along the whole chain, prev_leaf is the inverse
\* of next_leaf, first_leaf is the leftmost and last_leaf the rightmost leaf.
C14_LeavesLevelAndChained ==
    ih_.root_page # IX_NO_PAGE =>
        LET chain == Chain(ih_)
            es == EntriesOf(ih_, chain)
            leaves == {p \in TreePages(ih_) : ih_.nodes[p].is_leaf}
        IN /\ Cardinality(LeafDepths(ih_, ih_.root_page, 0)) = 1
           /\ {chain[i] : i \in 1..Len(chain)} = leaves
           /\ Len(chain) = Cardinality(leaves)
           /\ \A i \in 1..(Len(es) - 1) : es[i][1] < es[i + 1][1]
           /\ \A i \in 1..Len(chain) :
                  ih_.nodes[chain[i]].prev_leaf =
                      IF i = 1 THEN IX_LEAF_HEADER_PAGE ELSE chain[i - 1]
           /\ ih_.nodes[IX_LEAF_HEADER_PAGE].prev_leaf = chain[Len(chain)]
           /\ ih_.first_leaf = chain[1]
           /\ ih_.first_leaf = Leftmost(ih_, ih_.root_page, MaxIxPages)
           /\ ih_.last_leaf = chain[Len(chain)]
           /\ ih_.last_leaf = Rightmost(ih_, ih_.root_page, MaxIxPages)

\* a tree of two levels or more with three leaves or more that has seen a
\* merge, just after a delete_entry removed a key: last_leaf is not the leaf
\* with the largest page number
C14_Witness ==
    /\ ih_.root_page # IX_NO_PAGE
    /\ ~ih_.nodes[ih_.root_page].is_leaf
    /\ last.op = "delete_entry" /\ last.res = "true"
    /\ Len(Chain(ih_)) >= 3
    /\ ih_.num_pages < ih_.next_page_no
    /\ \E p \in TreePages(ih_) : ih_.nodes[p].is_leaf /\ p > ih_.last_leaf

\* ceil(n / 2)
CeilHalf(n) == (n + 1) \div 2

\* C15: after every completed insert_entry or delete_entry, every node of
\* the tree other than the root holds at least ceil(max/2) and at most
\* max - 1 keys, and the keys of every node are strictly ascending.
C15_NodeSizes ==
    \A p \in TreePages(ih_) :
        LET node == ih_.nodes[p]
        IN /\ p # ih_.root_page =>
                 /\ get_size(node) >= CeilHalf(ih_.max_size)
                 /\ get_size(node) <= ih_.max_size - 1
           /\ \A i \in 1..(get_size(node) - 1) : node.keys[i] < node.keys[i + 1]

\* the rids of the records of f that satisfy conds, from position i of the
\* file's rids in page and slot order
RECURSIVE MatchingFrom(_, _, _)
MatchingFrom(f, conds, i) ==
    IF i >= MaxHeapPages * NumRecordsPerPage THEN <<>>
    ELSE LET rid == <<RM_FIRST_RECORD_PAGE + i \div NumRecordsPerPage,
                      i % NumRecordsPerPage>>
         IN (IF rid \in Live(f) /\ check_conditions(Payload(f, rid), conds)
             THEN <<rid>> ELSE <<>>) \o MatchingFrom(f, conds, i + 1)

\* C16: the commit of t leaves the heap as t wrote it and no request of t
\* in any lock queue; once t is COMMITTED, a scan of the other transaction
\* is granted all its locks and returns exactly the live records of the
\* heap that satisfy its conditions.
C16_CommittedWritesVisible ==
    [][\A t \in Txns :
          /\ (txn_state[t] \in Active /\ txn_state'[t] = "COMMITTED") =>
                 /\ fh_' = fh_
                 /\ \A id \in AllLockIds : \A i \in 1..Len(lock_table'[id].reqs) :
                        lock_table'[id].reqs[i].txn # t
          /\ (txn_state[t] = "COMMITTED" /\ last'.op = "scan" /\ last'.txn # t) =>
                 /\ last'.res = "OK"
                 /\ fh_' = fh_
                 /\ \E conds \in Conds :
                        scan_'[last'.txn].rids = MatchingFrom(fh_, conds, 0)]_vars

\* t wrote two rows that hold the value 2 and committed; the other
\* transaction, which wrote nothing, then scanned, was granted S on both
\* rows and read them
C16_Witness ==
    \E t, u \in Txns :
        /\ t # u
        /\ txn_state[t] = "COMMITTED"
        /\ last.op = "scan" /\ last.txn = u /\ last.res = "OK"
        /\ write_set[u] = <<>>
        /\ Len(scan_[u].rids) = 2
        /\ \A i \in 1..2 : Payload(fh_, scan_[u].rids[i]) = 2
        /\ \A i \in 1..2 : Holds(u, scan_[u].rids[i], "S")

\* C17: no queue holds a request that is not granted, and every call of a
\* lock function has ended in its own step: with the lock granted to the
\* caller or with an exception.
C17_NoWait ==
    /\ \A id \in AllLockIds : \A i \in 1..Len(lock_table[id].reqs) :
           lock_table[id].reqs[i].granted
    /\ last.op \in LockOps =>
           \/ last.res = "OK" /\ \E m \in LockModes : Holds(last.txn, last.id, m)
           \/ last.res \in AbortErrs
                 /\ (last.res = "DEADLOCK_PREVENTION" =>
                        ~Holds(last.txn, last.id, "X"))

\* a transaction that holds S on a row asked for X while the other holds S
\* too: the request failed at once and nobody waits
C17_Witness ==
    \E t, u \in Txns : \E rid \in LockRows :
        /\ t # u
        /\ last.op = "lock_exclusive_on_record" /\ last.txn = t /\ last.id = rid
        /\ last.res = "DEADLOCK_PREVENTION"
        /\ Holds(t, rid, "S") /\ Holds(u, rid, "S")

(***************************************************************************)
(* The transaction manager and the lock manager called on the transaction  *)
(* object of a connection in whatever state the object is: neither checks  *)
(* that the transaction it is handed is still running                      *)
(***************************************************************************)
\* the object of connection t exists: begin(nullptr) has made it
Begun(t) == txn_state[t] # "DEFAULT"

\* TransactionManager::begin(txn) with the transaction object of t
BeginAgain(t) ==
    /\ Begun(t)
    /\ txn_state' = [txn_state EXCEPT ![t] = "GROWING"]
    /\ last' = [op |-> "begin", txn |-> t, id |-> TAB, res |-> "OK"]
    /\ UNCHANGED <<lock_table, lock_set, write_set, failed, next_txn_id,
                   dbvars, scan_, ix_map, snap,
                   callvars>>

NextApi ==
    \/ \E t \in Txns : Begin(t)
    \/ \E t \in Txns : BeginAgain(t)
    \/ \E t \in Txns : Begun(t) /\ commit(t)
    \/ \E t \in Txns : Begun(t) /\ abort(t)
    \/ \E t \in Txns, id \in LockIds : Begun(t) /\ unlock_call(t, id)
    \/ \E t \in Txns, rid \in LockRows :
          /\ Begun(t)
          /\ lock_call(t, rid, lock_shared_on_record(lock_table[rid], t),
                       "lock_shared_on_record")
    \/ \E t \in Txns, rid \in LockRows :
          /\ Begun(t)
          /\ lock_call(t, rid, lock_exclusive_on_record(lock_table[rid], t),
                       "lock_exclusive_on_record")
    \/ \E t \in Txns :
          /\ Begun(t)
          /\ lock_call(t, TAB, lock_shared_on_table(lock_table[TAB], t),
                       "lock_shared_on_table")
    \/ \E t \in Txns :
          /\ Begun(t)
          /\ lock_call(t, TAB, lock_exclusive_on_table(lock_table[TAB], t),
                       "lock_exclusive_on_table")
    \/ \E t \in Txns :
          /\ Begun(t)
          /\ lock_call(t, TAB, lock_IS_on_table(lock_table[TAB], t),
                       "lock_IS_on_table")
    \/ \E t \in Txns :
          /\ Begun(t)
          /\ lock_call(t, TAB, lock_IX_on_table(lock_table[TAB], t),
                       "lock_IX_on_table")

SpecApi == Init /\ [][NextApi]_vars

\* C18: once the state of a transaction is COMMITTED or ABORTED, no call
\* of begin, commit, abort, unlock or a lock function changes it.
C18_CommitAbortTerminal ==
    [][\A t \in Txns :
          txn_state[t] \in {"COMMITTED", "ABORTED"} =>
              txn_state'[t] = txn_state[t]]_vars

\* the positions of the requests of t in the queue of id
RequestsOf(t, id) ==
    {i \in 1..Len(lock_table[id].reqs) : lock_table[id].reqs[i].txn = t}

\* C19: every lock queue holds at most one request of each transaction.
C19_OneRequestPerTxn ==
    \A id \in AllLockIds : \A t \in Txns : Cardinality(RequestsOf(t, id)) <= 1

\* the table queue after lock_IX_on_table upgraded the S of a transaction
\* to SIX while the other transaction holds IS: two requests, one each
C19_Witness ==
    \E t, u \in Txns :
        /\ t # u
        /\ last.op = "lock_IX_on_table" /\ last.txn = t /\ last.res = "OK"
        /\ Holds(t, TAB, "SIX") /\ Holds(u, TAB, "IS")
        /\ Len(lock_table[TAB].reqs) = 2
        /\ \E rid \in LockRows : Holds(t, rid, "X")

MaxLatchKey == 4

LatchKeys == 1..MaxLatchKey

At(th, op, at) == pc[th].op = op /\ pc[th].at = at

Goto(th, op, at, key, leaf) ==
    pc' = [pc EXCEPT ![th] = [op |-> op, at |-> at, key |-> key, leaf |-> leaf]]

\* what a step of a thread leaves alone; the pins are followed in SpecPins
ThreadFrame ==
    UNCHANGED <<lock_table, txn_state, lock_set, write_set, failed, next_txn_id,
                fh_, indexes, ihs_, scan_, ix_map, snap, pin_count_, exec_, sm_>>

\* std::scoped_lock lock{root_latch_} at the head of op
Latch(th, op, key) ==
    /\ pc[th] = Idle
    /\ root_latch_ = 0
    /\ ih_.root_page # IX_NO_PAGE
    /\ root_latch_' = th
    /\ Goto(th, op, "latched", key, 0)
    /\ last' = [op |-> op, txn |-> th, id |-> TAB, res |-> "latched"]
    /\ UNCHANGED ih_
    /\ ThreadFrame

\* the return of a latched call: the scoped_lock is destroyed
Unlatch(th) ==
    /\ pc[th].at = "return"
    /\ root_latch_ = th
    /\ root_latch_' = 0
    /\ pc' = [pc EXCEPT ![th] = Idle]
    /\ last' = [op |-> pc[th].op, txn |-> th, id |-> TAB, res |-> "return"]
    /\ UNCHANGED ih_
    /\ ThreadFrame

\* insert_entry up to maintain_parent: the key is in its leaf
InsertLeaf(th) ==
    /\ At(th, "insert_entry", "latched")
    /\ LET key == pc[th].key
           leaf == find_leaf_page(ih_, ih_.root_page, key)
           inserted == node_insert(ih_.nodes[leaf], key, TreeRid(key))
           ix1 == [ih_ EXCEPT !.nodes =
                     maintain_parent([ih_.nodes EXCEPT ![leaf] = inserted], leaf)]
       IN IF get_size(inserted) = get_size(ih_.nodes[leaf])
          THEN /\ Goto(th, "insert_entry", "return", key, leaf)
               /\ UNCHANGED ih_
          ELSE /\ ih_' = ix1
               /\ Goto(th, "insert_entry",
                       IF get_size(inserted) = get_max_size(ih_)
                       THEN "split" ELSE "return", key, leaf)
    /\ last' = [op |-> "insert_entry", txn |-> th, id |-> TAB, res |-> "leaf"]
    /\ UNCHANGED root_latch_
    /\ ThreadFrame

\* split(leaf_node): the new leaf is in the chain and not yet in the parent
InsertSplit(th) ==
    /\ At(th, "insert_entry", "split")
    /\ ih_.next_page_no <= MaxIxPages
    /\ ih_' = split(ih_, pc[th].leaf)
    /\ Goto(th, "insert_entry", "parent", ih_.next_page_no, pc[th].leaf)
    /\ last' = [op |-> "insert_entry", txn |-> th, id |-> TAB, res |-> "split"]
    /\ UNCHANGED root_latch_
    /\ ThreadFrame

\* insert_into_parent(leaf_node, new_leaf->get_key(0), new_leaf); the frame
\* keeps the page of new_leaf in key
InsertParent(th) ==
    /\ At(th, "insert_entry", "parent")
    /\ LET new_leaf == pc[th].key
       IN ih_' = insert_into_parent(ih_, pc[th].leaf,
                                    get_key(ih_.nodes[new_leaf], 0), new_leaf)
    /\ Goto(th, "insert_entry", "return", 0, pc[th].leaf)
    /\ last' = [op |-> "insert_entry", txn |-> th, id |-> TAB, res |-> "parent"]
    /\ UNCHANGED root_latch_
    /\ ThreadFrame

\* delete_entry up to maintain_parent: the key has left its leaf
DeleteLeaf(th) ==
    /\ At(th, "delete_entry", "latched")
    /\ LET key == pc[th].key
           leaf == find_leaf_page(ih_, ih_.root_page, key)
           removed == node_remove(ih_.nodes[leaf], key)
           n1 == [ih_.nodes EXCEPT ![leaf] = removed]
           n2 == IF get_size(removed) > 0 THEN maintain_parent(n1, leaf) ELSE n1
       IN IF get_size(removed) = get_size(ih_.nodes[leaf])
          THEN /\ Goto(th, "delete_entry", "return", key, leaf)
               /\ UNCHANGED ih_
          ELSE /\ ih_' = [ih_ EXCEPT !.nodes = n2]
               /\ Goto(th, "delete_entry", "coalesce", key, leaf)
    /\ last' = [op |-> "delete_entry", txn |-> th, id |-> TAB, res |-> "leaf"]
    /\ UNCHANGED root_latch_
    /\ ThreadFrame

\* coalesce_or_redistribute(leaf_node)
DeleteCoalesce(th) ==
    /\ At(th, "delete_entry", "coalesce")
    /\ ih_' = coalesce_or_redistribute(ih_, pc[th].leaf)
    /\ Goto(th, "delete_entry", "return", pc[th].key, pc[th].leaf)
    /\ last' = [op |-> "delete_entry", txn |-> th, id |-> TAB, res |-> "coalesce"]
    /\ UNCHANGED root_latch_
    /\ ThreadFrame

\* the body of get_value under the latch
GetValueRead(th) ==
    /\ At(th, "get_value", "latched")
    /\ Goto(th, "get_value", "return", pc[th].key, 0)
    /\ last' = [op |-> "get_value", txn |-> th, id |-> TAB,
                res |-> IF get_value(ih_, pc[th].key).found THEN "true"
                        ELSE "false"]
    /\ UNCHANGED <<ih_, root_latch_>>
    /\ ThreadFrame

\* lower_bound: find_leaf_page, with no latch taken
LowerBoundFind(th, key) ==
    /\ pc[th] = Idle
    /\ ih_.root_page # IX_NO_PAGE
    /\ Goto(th, "lower_bound", "leaf", key,
            find_leaf_page(ih_, ih_.root_page, key))
    /\ last' = [op |-> "lower_bound", txn |-> th, id |-> TAB, res |-> "leaf"]
    /\ UNCHANGED <<ih_, root_latch_>>
    /\ ThreadFrame

\* the loop of lower_bound over the leaf chain, on at most n further leaves
RECURSIVE lower_bound_walk(_, _, _, _)
lower_bound_walk(ix, leaf, pos, n) ==
    IF pos = get_size(ix.nodes[leaf])
       /\ ix.nodes[leaf].next_leaf # IX_LEAF_HEADER_PAGE
       /\ ix.nodes[leaf].next_leaf \in IxPages
       /\ n > 0
    THEN lower_bound_walk(ix, ix.nodes[leaf].next_leaf, 0, n - 1)
    ELSE <<leaf, pos>>

\* lower_bound after find_leaf_page: the position in the leaf, then the walk
LowerBoundRead(th) ==
    /\ At(th, "lower_bound", "leaf")
    /\ pc' = [pc EXCEPT ![th] = Idle]
    /\ last' = [op |-> "lower_bound", txn |-> th, id |-> TAB,
                res |-> lower_bound_walk(ih_, pc[th].leaf,
                            node_lower_bound(ih_.nodes[pc[th].leaf], pc[th].key),
                            MaxIxPages)]
    /\ UNCHANGED <<ih_, root_latch_>>
    /\ ThreadFrame

\* leaf_end: one read of last_leaf and of the size of that page, no latch
LeafEnd(th) ==
    /\ pc[th] = Idle
    /\ ih_.root_page # IX_NO_PAGE
    /\ last' = [op |-> "leaf_end", txn |-> th, id |-> TAB,
                res |-> <<ih_.last_leaf, get_size(ih_.nodes[ih_.last_leaf])>>]
    /\ UNCHANGED <<ih_, root_latch_, pc>>
    /\ ThreadFrame

NextLatch ==
    \/ \E th \in Threads, k \in LatchKeys : Latch(th, "insert_entry", k)
    \/ \E th \in Threads, k \in LatchKeys : Latch(th, "delete_entry", k)
    \/ \E th \in Threads, k \in LatchKeys : Latch(th, "get_value", k)
    \/ \E th \in Threads : Unlatch(th)
    \/ \E th \in Threads : InsertLeaf(th)
    \/ \E th \in Threads : InsertSplit(th)
    \/ \E th \in Threads : InsertParent(th)
    \/ \E th \in Threads : DeleteLeaf(th)
    \/ \E th \in Threads : DeleteCoalesce(th)
    \/ \E th \in Threads : GetValueRead(th)
    \/ \E th \in Threads, k \in LatchKeys : LowerBoundFind(th, k)
    \/ \E th \in Threads : LowerBoundRead(th)
    \/ \E th \in Threads : LeafEnd(th)

SpecLatch == Init /\ [][NextLatch]_vars

ReadCalls == {"get_value", "lower_bound", "upper_bound", "leaf_end", "get_rid"}

WriteCalls == {"insert_entry", "delete_entry"}

\* C21: no step of a read of the tree (get_value, lower_bound, leaf_end) is
\* taken, and no read is under way, while another thread is inside
\* insert_entry or delete_entry.
C21_ReadsSerializedWithWrites ==
    [][\A r, w \in Threads :
          (r # w /\ pc[w].op \in WriteCalls) =>
              /\ pc'[r].op \notin ReadCalls
              /\ ~(last'.txn = r /\ last'.op \in ReadCalls)]_vars

(***************************************************************************)
(* Pins.  fetch_node and create_node pin a page, unpin_page gives the pin  *)
(* back; every step is one whole call of the index handle and pin_count_   *)
(* moves by the pins the call took and did not give back.                  *)
(***************************************************************************)
\* keys of the calls whose pins are followed
MaxPinKey == 5

PinKeys == 1..MaxPinKey

\* pins a page may keep before the calls on it are no longer followed
MaxPins == 2

\* the return value of coalesce_or_redistribute(node): node was deleted
node_deleted(ix, p) ==
    LET node == ix.nodes[p]
    IN IF is_root_page(node)
       THEN \/ ~node.is_leaf /\ get_size(node) = 1
            \/ node.is_leaf /\ get_size(node) = 0
       ELSE IF get_size(node) >= get_min_size(ix) THEN FALSE
       ELSE LET par == node.parent
                node_idx == find_child(ix.nodes[par], p)
                neighbor_idx == IF node_idx > 0 THEN node_idx - 1
                                ELSE node_idx + 1
                neighbor == value_at(ix.nodes[par], neighbor_idx)
            IN IF get_size(node) + get_size(ix.nodes[neighbor])
                      >= get_min_size(ix) * 2
               THEN FALSE
               ELSE node_idx # 0

\* a pin taken on page p and not given back
KeepPin(p) ==
    /\ pin_count_[p] < MaxPins
    /\ pin_count_' = [pin_count_ EXCEPT ![p] = @ + 1]

PinFrame ==
    UNCHANGED <<lock_table, txn_state, lock_set, write_set, failed, next_txn_id,
                fh_, indexes, ihs_, scan_, ix_map, snap, root_latch_, pc, exec_, sm_>>

\* get_value: find_leaf_page unpins every internal node it leaves, get_value
\* unpins the leaf
PinGetValue(k) ==
    /\ ih_.root_page # IX_NO_PAGE
    /\ last' = [op |-> "get_value", txn |-> 0, id |-> TAB,
                res |-> IF get_value(ih_, k).found THEN "true" ELSE "false"]
    /\ UNCHANGED <<ih_, pin_count_>>
    /\ PinFrame

\* insert_entry: the leaf is unpinned on the duplicate path and at the end,
\* the new node of every split by the caller of split, parents and the new
\* root inside insert_into_parent
PinInsert(k) ==
    /\ ih_.root_page # IX_NO_PAGE
    /\ LET r == insert_entry(ih_, k, TreeRid(k))
       IN /\ r.next_page_no <= MaxIxPages + 1
          /\ ih_' = r
    /\ last' = [op |-> "insert_entry", txn |-> 0, id |-> TAB, res |-> "OK"]
    /\ UNCHANGED pin_count_
    /\ PinFrame

\* delete_entry: the leaf is unpinned on the missing-key path and when
\* coalesce_or_redistribute returns false; when it returns true nobody
\* unpins the leaf
PinDelete(k) ==
    /\ ih_.root_page # IX_NO_PAGE
    /\ LET leaf == find_leaf_page(ih_, ih_.root_page, k)
           removed == node_remove(ih_.nodes[leaf], k)
           n1 == [ih_.nodes EXCEPT ![leaf] = removed]
           n2 == IF get_size(removed) > 0 THEN maintain_parent(n1, leaf) ELSE n1
           leaf_deleted == /\ get_size(removed) # get_size(ih_.nodes[leaf])
                           /\ node_deleted([ih_ EXCEPT !.nodes = n2], leaf)
       IN /\ IF leaf_deleted THEN KeepPin(leaf) ELSE UNCHANGED pin_count_
          /\ last' = [op |-> "delete_entry", txn |-> 0, id |-> TAB,
                      res |-> IF leaf_deleted THEN "leaf deleted"
                              ELSE "leaf kept"]
    /\ ih_' = delete_entry(ih_, k)
    /\ PinFrame

\* get_rid(iid): fetch_node, then the throw of IndexEntryNotFoundError
\* before unpin_page, or unpin_page and the return
PinGetRid(page_no, slot_no) ==
    /\ ih_.root_page # IX_NO_PAGE
    /\ page_no \in IX_INIT_ROOT_PAGE..(ih_.next_page_no - 1)
    /\ ih_.nodes[page_no].is_leaf
    /\ IF slot_no >= get_size(ih_.nodes[page_no])
       THEN /\ KeepPin(page_no)
            /\ last' = [op |-> "get_rid", txn |-> 0, id |-> TAB,
                        res |-> "INDEX_ENTRY_NOT_FOUND"]
       ELSE /\ UNCHANGED pin_count_
            /\ last' = [op |-> "get_rid", txn |-> 0, id |-> TAB, res |-> "OK"]
    /\ UNCHANGED ih_
    /\ PinFrame

\* leaf_end: fetch_node(last_leaf_) and unpin_page
PinLeafEnd ==
    /\ ih_.root_page # IX_NO_PAGE
    /\ last' = [op |-> "leaf_end", txn |-> 0, id |-> TAB, res |-> "OK"]
    /\ UNCHANGED <<ih_, pin_count_>>
    /\ PinFrame

NextPins ==
    \/ \E k \in PinKeys : PinGetValue(k)
    \/ \E k \in PinKeys : PinInsert(k)
    \/ \E k \in PinKeys : PinDelete(k)
    \/ \E p \in IxPages, i \in 0..MaxSize : PinGetRid(p, i)
    \/ PinLeafEnd

SpecPins == Init /\ [][NextPins]_vars

\* C22: every call of the index handle gives back every pin it took: the
\* pin count of every page is after the call what it was before it.
C22_PinBalance ==
    [][pin_count_' = pin_count_]_vars

\* key k has an entry in a leaf of the chain
HasKey(ix, k) ==
    LET es == IndexEntries(ix)
    IN \E i \in 1..Len(es) : es[i][1] = k

\* C23: on every tree the calls build, insert_entry of a key the tree holds
\* (with another rid) and delete_entry of a key the tree does not hold return
\* the index file as it was: nodes with their rids, leaf chain, root_page,
\* first_leaf, last_leaf and num_pages.
C23_NoOpLeavesTree ==
    ih_.root_page # IX_NO_PAGE =>
        \A k \in Keys :
            IF HasKey(ih_, k)
            THEN insert_entry(ih_, k, <<k, 1>>) = ih_
            ELSE delete_entry(ih_, k) = ih_

\* delete_entry of an absent key has returned false on a tree of two levels
\* that holds a key whose second insert, with rid <<k, 1>>, is enabled
C23_Witness ==
    /\ last.op = "delete_entry" /\ last.res = "false"
    /\ ih_.root_page # IX_NO_PAGE
    /\ ~ih_.nodes[ih_.root_page].is_leaf
    /\ \E k \in Keys : HasKey(ih_, k) /\ TreeRid(k) = <<k, 1>>
                       /\ get_value(ih_, k).rid = <<k, 0>>

\* get_record without its lock request: [err, buf]
read_record(fh, rid) ==
    IF ~page_exists(fh, rid[1]) THEN [err |-> "PAGE_NOT_EXIST", buf |-> 0]
    ELSE IF ~fh.pages[rid[1]].bitmap[rid[2]]
    THEN [err |-> "RECORD_NOT_FOUND", buf |-> 0]
    ELSE [err |-> "OK", buf |-> fh.pages[rid[1]].slots[rid[2]]]

\* the rids a scan yields after position rid: RmScan::next until is_end
RECURSIVE ScanFrom(_, _, _)
ScanFrom(fh, page_no, slot_no) ==
    LET rid == scan_next(fh, page_no, slot_no)
    IN IF rid[1] = RM_NO_PAGE THEN {}
       ELSE {rid} \cup ScanFrom(fh, rid[1], rid[2])

ScanAll(fh) == ScanFrom(fh, RM_FIRST_RECORD_PAGE, -1)

\* C24: on every heap file the statements of one client leave, insert_record
\* of a payload b returns a rid at which get_record reads b and which a scan
\* yields; and after delete_record of a rid a scan yields, get_record of it
\* fails with RECORD_NOT_FOUND and no scan yields it.
C24_HeapRoundTrip ==
    /\ (fh_.first_free_page_no # RM_NO_PAGE \/ fh_.num_pages <= MaxHeapPages) =>
          \A b \in Vals :
              LET r == insert_record(fh_, b)
              IN /\ read_record(r.fh, r.rid) = [err |-> "OK", buf |-> b]
                 /\ r.rid \in ScanAll(r.fh)
    /\ \A rid \in ScanAll(fh_) :
          LET d == delete_record(fh_, rid)
          IN /\ d.err = "OK"
             /\ read_record(d.fh, rid).err = "RECORD_NOT_FOUND"
             /\ rid \notin ScanAll(d.fh)

\* the mode a lock function asks for
ModeOf(op) ==
    CASE op \in {"lock_shared_on_record", "lock_shared_on_table"} -> "S"
      [] op \in {"lock_exclusive_on_record", "lock_exclusive_on_table"} -> "X"
      [] op = "lock_IS_on_table" -> "IS"
      [] op = "lock_IX_on_table" -> "IX"

\* the mode of the request of t in queue q, NON_LOCK when it has none
HeldMode(q, t) ==
    IF \E i \in 1..Len(q.reqs) : q.reqs[i].txn = t
    THEN q.reqs[CHOOSE i \in 1..Len(q.reqs) : q.reqs[i].txn = t].mode
    ELSE "NON_LOCK"

\* the modes granted in q to transactions other than t
OtherModes(q, t) ==
    {q.reqs[i].mode : i \in {j \in 1..Len(q.reqs) :
                                q.reqs[j].txn # t /\ q.reqs[j].granted}}

\* C25: when a GROWING transaction that holds M' on an id asks for a mode M
\* that M' does not cover, the request succeeds exactly when the join of M'
\* and M is compatible with every mode granted to other transactions on the
\* id; then its request has the join as mode, otherwise the call fails with
\* DEADLOCK_PREVENTION and the request keeps M'.
C25_UpgradeRule ==
    [][(/\ last'.op \in LockOps
        /\ last'.txn \in Txns
        /\ txn_state[last'.txn] = "GROWING"
        /\ HeldMode(lock_table[last'.id], last'.txn) # "NON_LOCK"
        /\ ~ModeLeq(ModeOf(last'.op), HeldMode(lock_table[last'.id], last'.txn)))
       => LET t == last'.txn
              q == lock_table[last'.id]
              held == HeldMode(q, t)
              join == Join({held, ModeOf(last'.op)})
          IN IF \A n \in OtherModes(q, t) : Compatible(join, n)
             THEN /\ last'.res = "OK"
                  /\ HeldMode(lock_table'[last'.id], t) = join
             ELSE /\ last'.res = "DEADLOCK_PREVENTION"
                  /\ HeldMode(lock_table'[last'.id], t) = held]_vars

\* C26: a request for mode M by a GROWING transaction with no request on the
\* id is granted exactly when M is compatible with every mode granted to
\* other transactions on the id; when granted, the granted request (T, M) is
\* appended to the queue and the id joins T's lock set; when refused, the
\* call fails with DEADLOCK_PREVENTION and T has no request on the id.
C26_NewRequest ==
    [][(/\ last'.op \in LockOps
        /\ last'.txn \in Txns
        /\ txn_state[last'.txn] = "GROWING"
        /\ HeldMode(lock_table[last'.id], last'.txn) = "NON_LOCK")
       => LET t == last'.txn
              id == last'.id
              q == lock_table[id]
              M == ModeOf(last'.op)
          IN IF \A n \in OtherModes(q, t) : Compatible(M, n)
             THEN /\ last'.res = "OK"
                  /\ lock_table'[id].reqs =
                         Append(q.reqs, [txn |-> t, mode |-> M, granted |-> TRUE])
                  /\ lock_set'[t] = lock_set[t] \cup {id}
             ELSE /\ last'.res = "DEADLOCK_PREVENTION"
                  /\ HeldMode(lock_table'[id], t) = "NON_LOCK"
                  /\ lock_set'[t] = lock_set[t]]_vars

\* a transaction whose new request for a row was granted next to the S of
\* the other one has just been refused its new request for S on the table,
\* on which the other one holds IX
C26_Witness ==
    \E t, u \in Txns : \E rid \in LockRows :
        /\ t # u
        /\ last.op = "lock_shared_on_table" /\ last.txn = t
        /\ last.res = "DEADLOCK_PREVENTION"
        /\ HeldMode(lock_table[TAB], t) = "NON_LOCK"
        /\ Holds(u, TAB, "IX")
        /\ Holds(t, rid, "S") /\ Holds(u, rid, "S")
        /\ lock_table[rid].reqs[2].txn = t
        /\ rid \in lock_set[t]

\* C27: every abort of a running transaction T runs to its end: after the
\* call the undo list and the lock set of T are empty, no queue holds a
\* request of T and T is ABORTED.
C27_AbortCompletes ==
    [][\A t \in Txns :
          (txn_state[t] \in Active /\ last'.op = "abort" /\ last'.txn = t) =>
              /\ last'.res = "OK"
              /\ write_set'[t] = <<>>
              /\ lock_set'[t] = {}
              /\ \A id \in AllLockIds : HeldMode(lock_table'[id], t) = "NON_LOCK"
              /\ txn_state'[t] = "ABORTED"]_vars

\* C28: every entry an Insert, Delete or Update appends to the undo list of
\* its transaction stands for a heap mutation the executor has applied: the
\* row of an INSERT_TUPLE entry is new in the heap, the row of a
\* DELETE_TUPLE entry has left it, and the row of an UPDATE_TUPLE entry was
\* written under the X lock of the transaction.
C28_UndoEntryAfterHeapWrite ==
    [][\A t \in Txns :
          (last'.txn = t /\ last'.op \in {"insert", "delete", "update"}) =>
              \A i \in (Len(write_set[t]) + 1)..Len(write_set'[t]) :
                  LET wr == write_set'[t][i]
                  IN CASE wr.wtype = "INSERT_TUPLE" ->
                              wr.rid \in Live(fh_') \ Live(fh_)
                       [] wr.wtype = "DELETE_TUPLE" ->
                              wr.rid \in Live(fh_) \ Live(fh_')
                       [] wr.wtype = "UPDATE_TUPLE" ->
                              /\ wr.rid \in Live(fh_')
                              /\ HoldsIn(lock_table', t, wr.rid, "X")]_vars

(***************************************************************************)
(* Executors of a SELECT: SeqScanExecutor over a heap file and             *)
(* NestedLoopJoinExecutor over two child executors.  The executors run     *)
(* with no lock manager in their context, so get_record only reads.  A     *)
(* tuple is the sequence of the INT columns of the joined tables; a join   *)
(* condition [lhs, op, rhs] names two columns of the joined tuple.         *)
(***************************************************************************)
\* rows a table of the join holds
MaxRows == 2

RECURSIVE SeqsUpTo(_)
SeqsUpTo(n) ==
    IF n = 0 THEN {<<>>}
    ELSE LET shorter == SeqsUpTo(n - 1)
         IN shorter \cup {Append(s, v) : s \in {x \in shorter : Len(x) = n - 1},
                                          v \in Vals}

TableRows == SeqsUpTo(MaxRows)

\* the heap file of a table after insert_record of its rows
RECURSIVE LoadTable(_, _)
LoadTable(fh, rows) ==
    IF rows = <<>> THEN fh
    ELSE LoadTable(insert_record(fh, Head(rows)).fh, Tail(rows))

\* SeqScanExecutor(sm_manager, tab_name, conds, context): scan is the rid of
\* scan_, an RmScan that does not exist yet
SeqScanExecutor(fh, conds) ==
    [type |-> "SeqScanExecutor", fh |-> fh, conds |-> conds,
     scan |-> INVALID_RID, rid |-> INVALID_RID]

\* NestedLoopJoinExecutor(left, right, conds)
NestedLoopJoinExecutor(left, right, conds) ==
    [type |-> "NestedLoopJoinExecutor", left |-> left, right |-> right,
     conds |-> conds, isend |-> FALSE]

\* the loop of SeqScanExecutor::beginTuple and nextTuple: stop at the first
\* record from the position of scan_ that satisfies conds
RECURSIVE seq_loop(_)
seq_loop(e) ==
    IF e.scan[1] = RM_NO_PAGE THEN e
    ELSE LET e1 == [e EXCEPT !.rid = e.scan]
         IN IF check_conditions(read_record(e.fh, e1.rid).buf, e.conds) THEN e1
            ELSE seq_loop([e1 EXCEPT !.scan = scan_next(e.fh, e.scan[1], e.scan[2])])

\* NestedLoopJoinExecutor::check_join_conditions on the two child tuples
check_join_conditions(left_rec, right_rec, conds) ==
    LET rec == left_rec \o right_rec
    IN \A i \in 1..Len(conds) :
          compare_values(rec[conds[i].lhs], rec[conds[i].rhs], conds[i].op)

RECURSIVE is_end(_), NextTuple(_), beginTuple(_), nextTuple(_), join_loop(_),
          join_check(_)
\* is_end(): of the scan, scan_->is_end(); of the join, the field isend
is_end(e) ==
    IF e.type = "SeqScanExecutor" THEN e.scan[1] = RM_NO_PAGE ELSE e.isend

\* Next(): the tuple the executor is positioned on
NextTuple(e) ==
    IF e.type = "SeqScanExecutor" THEN <<read_record(e.fh, e.rid).buf>>
    ELSE NextTuple(e.left) \o NextTuple(e.right)

\* a join_check that stays on a pair that fails the conditions; the end of
\* the join's beginTuple and nextTuple: a pair that fails the conditions is
\* passed over by nextTuple()
join_check_keep(e) == e

join_check(e) ==
    IF ~check_join_conditions(NextTuple(e.left), NextTuple(e.right), e.conds)
    THEN nextTuple(e) ELSE e

\* the while loop of the join's nextTuple
join_loop(e) ==
    IF is_end(e.right)
    THEN LET l == nextTuple(e.left)
         IN IF is_end(l) THEN [e EXCEPT !.left = l, !.isend = TRUE]
            ELSE LET r == beginTuple(e.right)
                 IN IF is_end(r)
                    THEN [e EXCEPT !.left = l, !.right = r, !.isend = TRUE]
                    ELSE join_loop([e EXCEPT !.left = l, !.right = r])
    ELSE join_check(e)

beginTuple(e) ==
    IF e.type = "SeqScanExecutor"
    THEN seq_loop([e EXCEPT !.scan = scan_next(e.fh, RM_FIRST_RECORD_PAGE, -1)])
    ELSE LET l == beginTuple(e.left)
         IN IF is_end(l) THEN [e EXCEPT !.left = l, !.isend = TRUE]
            ELSE LET r == beginTuple(e.right)
                 IN IF is_end(r)
                    THEN [e EXCEPT !.left = l, !.right = r, !.isend = TRUE]
                    ELSE join_check([e EXCEPT !.left = l, !.right = r])

nextTuple(e) ==
    IF e.type = "SeqScanExecutor"
    THEN seq_loop([e EXCEPT !.scan = scan_next(e.fh, e.scan[1], e.scan[2])])
    ELSE join_loop([e EXCEPT !.right = nextTuple(e.right)])

\* the conditions of a join of tables of one column: none, or equality of
\* the first column of the left child and the first column of the right one
JoinConds(left_len) ==
    {<<>>, <<[lhs |-> 1, op |-> "OP_EQ", rhs |-> left_len + 1]>>}

Scan(rows) == SeqScanExecutor(LoadTable(NewFile, rows), <<>>)

\* the executor trees built for SELECT * FROM A, B and SELECT * FROM A, B, C:
\* a join is the right child of the join above it
Plans ==
    {NestedLoopJoinExecutor(Scan(a), Scan(b), c1) :
        a \in TableRows, b \in TableRows, c1 \in JoinConds(1)}
    \cup
    {NestedLoopJoinExecutor(Scan(a), NestedLoopJoinExecutor(Scan(b), Scan(c), c1), c2) :
        a \in TableRows, b \in TableRows, c \in TableRows,
        c1 \in JoinConds(1), c2 \in JoinConds(1)}

ExecFrame ==
    UNCHANGED <<lock_table, txn_state, lock_set, write_set, failed, next_txn_id,
                fh_, indexes, ihs_, ih_, scan_, ix_map, snap, root_latch_, pc,
                pin_count_, sm_>>

\* the executor tree of a SELECT is built
OpenSelect(plan) ==
    /\ exec_ = NoPlan
    /\ exec_' = [root |-> plan, begun |-> FALSE, out |-> <<>>]
    /\ last' = [op |-> "open", txn |-> 0, id |-> TAB, res |-> "OK"]
    /\ ExecFrame

\* beginTuple() on the root, the first time or again
SelectBegin ==
    /\ exec_.root.type # "none"
    /\ exec_' = [root |-> beginTuple(exec_.root), begun |-> TRUE, out |-> <<>>]
    /\ last' = [op |-> "beginTuple", txn |-> 0, id |-> TAB, res |-> "OK"]
    /\ ExecFrame

\* Next() and then nextTuple() on the root, while it is not at its end
SelectNext ==
    /\ exec_.begun
    /\ ~is_end(exec_.root)
    /\ exec_' = [exec_ EXCEPT !.root = nextTuple(exec_.root),
                              !.out = Append(@, NextTuple(exec_.root))]
    /\ last' = [op |-> "nextTuple", txn |-> 0, id |-> TAB, res |-> "OK"]
    /\ ExecFrame

NextJoin ==
    \/ \E plan \in Plans : OpenSelect(plan)
    \/ SelectBegin
    \/ SelectNext

SpecJoin == Init /\ [][NextJoin]_vars

\* the records of a heap file in the order a scan yields them
RECURSIVE RowsFrom(_, _, _)
RowsFrom(fh, page_no, slot_no) ==
    LET rid == scan_next(fh, page_no, slot_no)
    IN IF rid[1] = RM_NO_PAGE THEN <<>>
       ELSE <<read_record(fh, rid).buf>> \o RowsFrom(fh, rid[1], rid[2])

\* left tuple l paired with the tuples of rs, those that satisfy conds
RECURSIVE PairsOf(_, _, _)
PairsOf(l, rs, conds) ==
    IF rs = <<>> THEN <<>>
    ELSE (IF check_join_conditions(l, Head(rs), conds)
          THEN <<l \o Head(rs)>> ELSE <<>>) \o PairsOf(l, Tail(rs), conds)

RECURSIVE JoinOf(_, _, _)
JoinOf(ls, rs, conds) ==
    IF ls = <<>> THEN <<>>
    ELSE PairsOf(Head(ls), rs, conds) \o JoinOf(Tail(ls), rs, conds)

\* the qualifying tuples of an executor tree, in nested-loop order
RECURSIVE Qualifying(_)
Qualifying(e) ==
    IF e.type = "SeqScanExecutor"
    THEN LET rows == RowsFrom(e.fh, RM_FIRST_RECORD_PAGE, -1)
         IN [i \in 1..Len(rows) |-> <<rows[i]>>]
    ELSE JoinOf(Qualifying(e.left), Qualifying(e.right), e.conds)

\* C29: after beginTuple on the root, the first time or again, and after
\* every nextTuple that follows, the tuples returned so far are the first
\* qualifying tuples, is_end is true exactly when all qualifying tuples were
\* returned, and otherwise Next() is the next qualifying tuple; so a join
\* that ran to is_end returned every qualifying pair or triple.
C29_Restartable ==
    exec_.begun =>
        LET all == Qualifying(exec_.root)
            n == Len(exec_.out)
        IN /\ n <= Len(all)
           /\ exec_.out = SubSeq(all, 1, n)
           /\ is_end(exec_.root) <=> n = Len(all)
           /\ ~is_end(exec_.root) => NextTuple(exec_.root) = all[n + 1]

\* the rids of the write records of kind w in the undo list ws
RidsOf(ws, w) == {ws[i].rid : i \in {j \in 1..Len(ws) : ws[j].wtype = w}}

\* the kind of the last write record of the undo list ws on rid, "none" if
\* ws holds no record on it
LastWrite(ws, rid) ==
    LET on == {i \in 1..Len(ws) : ws[i].rid = rid}
    IN IF on = {} THEN "none"
       ELSE ws[CHOOSE i \in on : \A j \in on : j <= i].wtype

\* C30: when a transaction t of which no statement failed aborts while
\* another transaction u runs, every live record that u inserted and that t
\* did not write (t has no write record on its rid, or deleted the record
\* that was there before) is live after the abort with the payload it had
\* before, every record t deleted and had not inserted itself is live
\* again, and no such record of u has the rid of a record t deleted.
C30_AbortKeepsOthersRecords ==
    [][\A t, u \in Txns :
          (/\ t # u
           /\ txn_state[t] \in Active /\ ~failed[t]
           /\ txn_state[u] \in Active
           /\ last'.op = "abort" /\ last'.txn = t) =>
              LET ins == {r \in (RidsOf(write_set[u], "INSERT_TUPLE")
                                   \ RidsOf(write_set[u], "DELETE_TUPLE"))
                                \cap Live(fh_) :
                            LastWrite(write_set[t], r) \in {"none", "DELETE_TUPLE"}}
                  del == RidsOf(write_set[t], "DELETE_TUPLE")
                             \ RidsOf(write_set[t], "INSERT_TUPLE")
              IN /\ \A r \in ins : /\ r \in Live(fh_')
                                   /\ Payload(fh_', r) = Payload(fh_, r)
                 /\ \A r \in del : r \in Live(fh_')
                 /\ ins \cap del = {}]_vars

(***************************************************************************)
(* The catalog: SmManager's calls on a database of several tables, made    *)
(* with no transaction in their context                                    *)
(***************************************************************************)
TabNames == {"t", "u"}

\* the column lists an index is made on
IndexCols == {<<"a">>, <<"b">>}

CatFrame ==
    UNCHANGED <<lock_table, txn_state, lock_set, write_set, failed, next_txn_id,
                fh_, indexes, ihs_, ih_, scan_, ix_map, snap, root_latch_, pc,
                pin_count_, exec_>>

CatResult(op, res) ==
    last' = [op |-> op, txn |-> 0, id |-> TAB, res |-> res]

\* db_.tabs_ without the table tab_name
TabsErase(tabs, tab_name) == [n \in DOMAIN tabs \ {tab_name} |-> tabs[n]]

\* the indexes listed in tabs, each as (table, column list): the names
\* get_index_name gives them
IndexNames(tabs) ==
    {x \in TabNames \X IndexCols : x[1] \in DOMAIN tabs /\ x[2] \in tabs[x[1]]}

\* SmManager::open_db of the closed database
open_db ==
    /\ ~sm_.open
    /\ sm_' = [sm_ EXCEPT !.open = TRUE,
                          !.tabs = sm_.meta,
                          !.fhs = @ \cup DOMAIN sm_.meta,
                          !.ihs = @ \cup IndexNames(sm_.meta)]
    /\ CatResult("open_db", "OK")
    /\ CatFrame

\* SmManager::close_db
close_db ==
    /\ sm_.open
    /\ sm_' = [tabs |-> <<>>, fhs |-> {}, ihs |-> {}, meta |-> sm_.tabs,
               open |-> FALSE]
    /\ CatResult("close_db", "OK")
    /\ CatFrame

\* SmManager::create_table
create_table(tab_name) ==
    /\ sm_.open
    /\ IF tab_name \in DOMAIN sm_.tabs
       THEN /\ CatResult("create_table", "TABLE_EXISTS")
            /\ UNCHANGED sm_
       ELSE LET tabs == sm_.tabs @@ (tab_name :> {})
            IN /\ sm_' = [sm_ EXCEPT !.tabs = tabs,
                                     !.fhs = @ \cup {tab_name},
                                     !.meta = tabs]
               /\ CatResult("create_table", "OK")
    /\ CatFrame

\* SmManager::drop_table
drop_table(tab_name) ==
    /\ sm_.open
    /\ IF tab_name \notin DOMAIN sm_.tabs
       THEN /\ CatResult("drop_table", "TABLE_NOT_FOUND")
            /\ UNCHANGED sm_
       ELSE LET tabs == TabsErase(sm_.tabs, tab_name)
            IN /\ sm_' = [sm_ EXCEPT
                            !.tabs = tabs,
                            !.ihs = @ \ {<<tab_name, cols>> : cols \in sm_.tabs[tab_name]},
                            !.fhs = @ \ {tab_name},
                            !.meta = tabs]
               /\ CatResult("drop_table", "OK")
    /\ CatFrame

\* SmManager::create_index: no handle of the new index is put into ihs_
create_index(tab_name, col_names) ==
    /\ sm_.open
    /\ IF tab_name \notin DOMAIN sm_.tabs
       THEN /\ CatResult("create_index", "TABLE_NOT_FOUND")
            /\ UNCHANGED sm_
       ELSE IF col_names \in sm_.tabs[tab_name]
       THEN /\ CatResult("create_index", "INDEX_EXISTS")
            /\ UNCHANGED sm_
       ELSE LET tabs == [sm_.tabs EXCEPT ![tab_name] = @ \cup {col_names}]
            IN /\ sm_' = [sm_ EXCEPT !.tabs = tabs, !.meta = tabs]
               /\ CatResult("create_index", "OK")
    /\ CatFrame

\* SmManager::drop_index
drop_index(tab_name, col_names) ==
    /\ sm_.open
    /\ IF tab_name \notin DOMAIN sm_.tabs
       THEN /\ CatResult("drop_index", "TABLE_NOT_FOUND")
            /\ UNCHANGED sm_
       ELSE IF col_names \notin sm_.tabs[tab_name]
       THEN /\ CatResult("drop_index", "INDEX_NOT_FOUND")
            /\ UNCHANGED sm_
       ELSE LET tabs == [sm_.tabs EXCEPT ![tab_name] = @ \ {col_names}]
            IN /\ sm_' = [sm_ EXCEPT !.tabs = tabs,
                                     !.ihs = @ \ {<<tab_name, col_names>>},
                                     !.meta = tabs]
               /\ CatResult("drop_index", "OK")
    /\ CatFrame

\* the lookups of InsertExecutor on tab_name: fhs_.at(tab_name) in its
\* constructor, ihs_.at(index name) in Next for every index of the table
insert_lookup(tab_name) ==
    /\ sm_.open
    /\ tab_name \in DOMAIN sm_.tabs
    /\ CatResult("insert",
                 IF tab_name \notin sm_.fhs
                    \/ \E cols \in sm_.tabs[tab_name] : <<tab_name, cols>> \notin sm_.ihs
                 THEN "out_of_range" ELSE "OK")
    /\ UNCHANGED sm_
    /\ CatFrame

NextCatalog ==
    \/ open_db
    \/ close_db
    \/ \E n \in TabNames : create_table(n)
    \/ \E n \in TabNames : drop_table(n)
    \/ \E n \in TabNames, cols \in IndexCols : create_index(n, cols)
    \/ \E n \in TabNames, cols \in IndexCols : drop_index(n, cols)
    \/ \E n \in TabNames : insert_lookup(n)

SpecCatalog == Init /\ [][NextCatalog]_vars

\* C31: while the database is open, fhs_ holds a handle for exactly the
\* tables of db_.tabs_ and ihs_ one for exactly the indexes listed in the
\* tables' metadata, and the lookups of an insert never fail.
C31_RegistriesMatchCatalog ==
    /\ sm_.open =>
          /\ sm_.fhs = DOMAIN sm_.tabs
          /\ sm_.ihs = IndexNames(sm_.tabs)
    /\ last.op = "insert" => last.res = "OK"

\* C32: every request in every lock queue belongs to a transaction whose
\* state is GROWING or SHRINKING; none belongs to a COMMITTED or ABORTED
\* transaction.
C32_NoLockForEndedTxn ==
    \A id \in AllLockIds :
        \A i \in 1..Len(lock_table[id].reqs) :
            txn_state[lock_table[id].reqs[i].txn] \in {"GROWING", "SHRINKING"}

\* insert_entry of key into ix brings its leaf to max_size
SplitsLeaf(ix, key) ==
    /\ ~get_value(ix, key).found
    /\ get_size(ix.nodes[find_leaf_page(ix, ix.root_page, key)])
           = get_max_size(ix) - 1
    /\ insert_entry(ix, key, <<key, 0>>).next_page_no <= MaxIxPages + 1

\* what the split of the leaf of key leaves: the two halves, the leaf
\* chain, last_leaf and the entry of the new leaf in the parent
SplitDone(ix, key) ==
    LET L == find_leaf_page(ix, ix.root_page, key)
        N == ix.next_page_no
        r == insert_entry(ix, key, <<key, 0>>)
        all == node_insert(ix.nodes[L], key, <<key, 0>>)
        half == get_max_size(ix) \div 2
        nxt == ix.nodes[L].next_leaf
    IN /\ r.nodes[L].keys = SubSeq(all.keys, 1, half)
       /\ r.nodes[L].rids = SubSeq(all.rids, 1, half)
       /\ r.nodes[N].keys = SubSeq(all.keys, half + 1, Len(all.keys))
       /\ r.nodes[N].rids = SubSeq(all.rids, half + 1, Len(all.rids))
       /\ r.nodes[N].is_leaf
       /\ r.nodes[L].next_leaf = N /\ r.nodes[N].prev_leaf = L
       /\ r.nodes[N].next_leaf = nxt /\ r.nodes[nxt].prev_leaf = N
       /\ r.last_leaf = IF ix.last_leaf = L THEN N ELSE ix.last_leaf
       /\ IF is_root_page(ix.nodes[L])
          THEN LET R == r.root_page
               IN /\ R = N + 1
                  /\ ~r.nodes[R].is_leaf
                  /\ r.nodes[R].keys = <<all.keys[1], all.keys[half + 1]>>
                  /\ r.nodes[R].rids = <<<<L, 0>>, <<N, 0>>>>
                  /\ r.nodes[L].parent = R /\ r.nodes[N].parent = R
          ELSE LET PL == r.nodes[L].parent
                   PN == r.nodes[N].parent
                   iL == find_child(r.nodes[PL], L)
                   iN == find_child(r.nodes[PN], N)
               IN /\ get_key(r.nodes[PN], iN) = all.keys[half + 1]
                  /\ IF PL = PN THEN iN = iL + 1
                     ELSE \* the parent was split between the two leaves
                          /\ PL = ix.nodes[L].parent /\ PN = N + 1
                          /\ iL = get_size(r.nodes[PL]) - 1 /\ iN = 0
                          /\ get_size(r.nodes[PL]) = half
                          /\ get_size(r.nodes[PN]) = get_max_size(ix) - half

\* the index of capacity 4 after insert_entry of 10, 20, 30, 40, 50
SplitExample ==
    insert_entry(insert_entry(insert_entry(insert_entry(insert_entry(
        NewIndex(4), 10, <<10, 0>>), 20, <<20, 0>>), 30, <<30, 0>>),
        40, <<40, 0>>), 50, <<50, 0>>)

\* C33: on every tree the calls build, an insert_entry that brings a leaf
\* to max_size leaves the lowest floor(max_size / 2) entries in the leaf and
\* the rest in a new leaf linked right after it, moves last_leaf when the
\* leaf was the last, and puts the first key of the new leaf into the parent
\* right after the entry of the old leaf, in a new root of two entries when
\* the leaf was the root; and with capacity 4 the keys 10, 20, 30, 40, 50
\* give the leaves [10,20] and [30,40,50] under a root with keys [10,30].
C33_SplitShape ==
    /\ ih_.root_page # IX_NO_PAGE =>
          \A k \in Keys : SplitsLeaf(ih_, k) => SplitDone(ih_, k)
    /\ LET e == SplitExample
           root == e.nodes[e.root_page]
           l1 == value_at(root, 0)
           l2 == value_at(root, 1)
       IN /\ ~root.is_leaf /\ root.keys = <<10, 30>>
          /\ e.nodes[l1].keys = <<10, 20>> /\ e.nodes[l2].keys = <<30, 40, 50>>
          /\ e.nodes[l1].is_leaf /\ e.nodes[l2].is_leaf
          /\ e.first_leaf = l1 /\ e.last_leaf = l2
          /\ e.nodes[l1].next_leaf = l2 /\ e.nodes[l2].prev_leaf = l1
          /\ e.nodes[l1].prev_leaf = IX_LEAF_HEADER_PAGE
          /\ e.nodes[l2].next_leaf = IX_LEAF_HEADER_PAGE

\* a tree in which the insert of some absent key splits a leaf whose parent
\* is full too, and one in which it splits the last leaf
C33_Witness ==
    /\ ih_.root_page # IX_NO_PAGE
    /\ last.op = "insert_entry"
    /\ \E k \in Keys :
          /\ SplitsLeaf(ih_, k)
          /\ LET L == find_leaf_page(ih_, ih_.root_page, k)
             IN /\ ~is_root_page(ih_.nodes[L])
                /\ get_size(ih_.nodes[ih_.nodes[L].parent]) = get_max_size(ih_) - 1
    /\ \E k \in Keys :
          /\ SplitsLeaf(ih_, k)
          /\ find_leaf_page(ih_, ih_.root_page, k) = ih_.last_leaf

\* delete_entry of key leaves its leaf, which is not the root, with fewer
\* than min_size keys
Underflows(ix, key) ==
    LET leaf == find_leaf_page(ix, ix.root_page, key)
    IN /\ get_value(ix, key).found
       /\ ~is_root_page(ix.nodes[leaf])
       /\ get_size(ix.nodes[leaf]) - 1 < get_min_size(ix)

EntrySet(ix) == LET es == IndexEntries(ix) IN {es[i] : i \in 1..Len(es)}

\* s without its members equal to x
Without(s, x) ==
    LET keep(e) == e # x IN SelectSeq(s, keep)

\* what delete_entry of key leaves when its leaf underflows
Rebalanced(ix, key) ==
    LET leaf == find_leaf_page(ix, ix.root_page, key)
        node == node_remove(ix.nodes[leaf], key)
        par == ix.nodes[leaf].parent
        idx == find_child(ix.nodes[par], leaf)
        nb == value_at(ix.nodes[par], IF idx > 0 THEN idx - 1 ELSE idx + 1)
        nbn == ix.nodes[nb]
        r == delete_entry(ix, key)
    IN /\ EntrySet(r) = EntrySet(ix) \ {<<key, get_value(ix, key).rid>>}
       /\ IF get_size(node) + get_size(nbn) >= 2 * get_min_size(ix)
          THEN \* one entry moves from the sibling to the node
               /\ r.nodes[leaf].keys =
                      IF idx > 0 THEN <<nbn.keys[Len(nbn.keys)]>> \o node.keys
                      ELSE Append(node.keys, nbn.keys[1])
               /\ r.nodes[nb].keys =
                      IF idx > 0 THEN SubSeq(nbn.keys, 1, Len(nbn.keys) - 1)
                      ELSE Tail(nbn.keys)
               /\ r.num_pages = ix.num_pages
               /\ r.root_page = ix.root_page
               /\ Chain(r) = Chain(ix)
          ELSE \* the right node of the pair is merged into the left one
               LET keep == IF idx > 0 THEN nb ELSE leaf
                   dead == IF idx > 0 THEN leaf ELSE nb
               IN /\ r.nodes[keep].keys =
                         IF idx > 0 THEN nbn.keys \o node.keys
                         ELSE node.keys \o nbn.keys
                  /\ Chain(r) = Without(Chain(ix), dead)
                  /\ dead \notin TreePages(r)
                  /\ r.last_leaf = IF ix.last_leaf = dead THEN keep
                                   ELSE ix.last_leaf
                  /\ r.root_page # IX_NO_PAGE
                  /\ \A p \in TreePages(r) :
                        ~r.nodes[p].is_leaf =>
                            IF p = r.root_page THEN get_size(r.nodes[p]) >= 2
                            ELSE get_size(r.nodes[p]) >= get_min_size(r)

\* the index of SplitExample after delete_entry of 10, 20, 30
MergeExample ==
    delete_entry(delete_entry(delete_entry(SplitExample, 10), 20), 30)

\* C34: on every tree the calls build, a delete_entry that leaves a leaf
\* other than the root with fewer than min_size keys takes the left sibling
\* if the leaf has one, else the right one; when the two sizes sum to at
\* least 2 * min_size one entry moves from the sibling to the leaf, else the
\* right node of the pair is merged into the left one and leaves the leaf
\* chain and the tree, the nodes above keep their minimum sizes and a root
\* with one child is replaced by the child; the entries of the tree are the
\* former ones without the deleted key.  With capacity 4, deleting 10, 20,
\* 30 from the leaves [10,20] and [30,40,50] ends with the single leaf
\* [40,50], which is the root and the only leaf of the chain.
C34_DeleteRebalances ==
    /\ ih_.root_page # IX_NO_PAGE =>
          \A k \in Keys : Underflows(ih_, k) => Rebalanced(ih_, k)
    /\ LET e == MergeExample
           root == e.nodes[e.root_page]
       IN /\ e.root_page # IX_NO_PAGE
          /\ root.is_leaf /\ root.keys = <<40, 50>>
          /\ root.parent = IX_NO_PAGE
          /\ e.nodes[IX_LEAF_HEADER_PAGE].next_leaf = e.root_page
          /\ e.nodes[IX_LEAF_HEADER_PAGE].prev_leaf = e.root_page
          /\ root.next_leaf = IX_LEAF_HEADER_PAGE
          /\ root.prev_leaf = IX_LEAF_HEADER_PAGE

\* a tree a delete_entry has left, in which the delete of one key merges
\* two leaves and the delete of another moves an entry between two leaves
C34_Witness ==
    /\ ih_.root_page # IX_NO_PAGE
    /\ last.op = "delete_entry" /\ last.res = "true"
    /\ ~ih_.nodes[ih_.root_page].is_leaf
    /\ \E k \in Keys :
          /\ Underflows(ih_, k)
          /\ delete_entry(ih_, k).num_pages < ih_.num_pages
    /\ \E k \in Keys :
          /\ Underflows(ih_, k)
          /\ delete_entry(ih_, k).num_pages = ih_.num_pages

\* the page_id_t insert_entry returns: the page number of the leaf
\* find_leaf_page reached, taken before the insertion, on both paths
insert_entry_return(ix, key) == find_leaf_page(ix, ix.root_page, key)

\* C35: on every tree the calls build, the value insert_entry returns for
\* a key the tree holds differs from the value it returns for a key the
\* tree does not hold, so that the caller can tell a duplicate from an
\* insertion.
C35_DuplicateReported ==
    ih_.root_page # IX_NO_PAGE =>
        \A k \in DOMAIN ix_map : \A j \in Keys \ DOMAIN ix_map :
            insert_entry_return(ih_, k) # insert_entry_return(ih_, j)

\* C36: after a delete_entry that removed the last key the index has a
\* root, get_value finds no key, and an insert_entry of any key k makes
\* get_value(k) return its rid and puts k in the leaf chain.
C36_EmptyIndexUsable ==
    (last.op = "delete_entry" /\ last.res = "true" /\ DOMAIN ix_map = {}) =>
        /\ ih_.root_page \in IxPages
        /\ \A k \in Keys :
              /\ ~get_value(ih_, k).found
              /\ LET r == insert_entry(ih_, k, TreeRid(k))
                 IN /\ get_value(r, k).found
                    /\ get_value(r, k).rid = TreeRid(k)
                    /\ <<k, TreeRid(k)>> \in EntrySet(r)

\* the condition lists of the scans checked: none, each comparison of the
\* column with the value 2, and three lists of two comparisons
ScanConds ==
    LET c(o, v) == [op |-> o, rhs |-> v]
    IN {<<>>} \cup {<<c(o, 2)>> : o \in CompOps}
       \cup {<<c("OP_GE", 1), c("OP_NE", 2)>>,
              <<c("OP_NE", 1), c("OP_NE", 2)>>,
              <<c("OP_LE", 2), c("OP_GE", 2)>>}

\* what a comparison means
Rel(lhs, op, rhs) ==
    CASE op = "OP_EQ" -> lhs = rhs
      [] op = "OP_NE" -> lhs # rhs
      [] op = "OP_LT" -> lhs < rhs
      [] op = "OP_GT" -> lhs > rhs
      [] op = "OP_LE" -> lhs <= rhs
      [] op = "OP_GE" -> lhs >= rhs

\* the rids of the live records of f, from page p on, whose payload
\* satisfies every condition of conds, in page and slot order
RECURSIVE Selected(_, _, _, _)
Selected(f, conds, p, s) ==
    IF p >= f.num_pages THEN <<>>
    ELSE IF s >= NumRecordsPerPage THEN Selected(f, conds, p + 1, 0)
    ELSE (IF /\ f.pages[p].bitmap[s]
             /\ \A i \in 1..Len(conds) :
                   Rel(f.pages[p].slots[s], conds[i].op, conds[i].rhs)
          THEN <<<<p, s>>>> ELSE <<>>) \o Selected(f, conds, p, s + 1)

\* the executor after beginTuple and n calls of nextTuple
RECURSIVE Advanced(_, _)
Advanced(e, n) ==
    IF n = 0 THEN beginTuple(e) ELSE nextTuple(Advanced(e, n - 1))

\* the executor a, and after each nextTuple the executor it leaves, is
\* positioned on the records at the rids of expected from position i on,
\* in their order, and is then at its end
RECURSIVE Returns(_, _, _)
Returns(a, expected, i) ==
    IF i > Len(expected) THEN is_end(a)
    ELSE /\ ~is_end(a)
         /\ a.rid = expected[i]
         /\ NextTuple(a) = <<a.fh.pages[expected[i][1]].slots[expected[i][2]]>>
         /\ Returns(nextTuple(a), expected, i + 1)

\* for (beginTuple(); !is_end(); nextTuple()) on a scan of f returns the
\* records at the rids of expected, in their order, and then is at its end
ScansExactly(f, conds, expected) ==
    Returns(beginTuple(SeqScanExecutor(f, conds)), expected, 1)

\* the rows 1, 2, 3 inserted into a new table
ScanExample == LoadTable(NewFile, <<1, 2, 3>>)

\* C37: on every heap file the statements of one client leave, a SeqScan
\* with any condition list returns the live records that satisfy all its
\* conditions, each once, in strictly ascending (page_no, slot_no) order,
\* and is at its end after the last one, at once if there is none; on the
\* rows 1, 2, 3 the condition a >= 2 gives the rows 2 and 3 in rid order.
C37_SeqScanExact ==
    /\ \A conds \in ScanConds :
          LET expected == Selected(fh_, conds, RM_FIRST_RECORD_PAGE, 0)
          IN /\ ScansExactly(fh_, conds, expected)
             /\ \A i \in 1..Len(expected) : \A j \in (i + 1)..Len(expected) :
                   \/ expected[i][1] < expected[j][1]
                   \/ /\ expected[i][1] = expected[j][1]
                      /\ expected[i][2] < expected[j][2]
    /\ LET e == SeqScanExecutor(ScanExample, <<[op |-> "OP_GE", rhs |-> 2]>>)
           first == Advanced(e, 0)
           second == Advanced(e, 1)
       IN /\ ~is_end(first) /\ NextTuple(first) = <<2>>
          /\ ~is_end(second) /\ NextTuple(second) = <<3>>
          /\ \/ first.rid[1] < second.rid[1]
             \/ /\ first.rid[1] = second.rid[1]
                /\ first.rid[2] < second.rid[2]
          /\ is_end(Advanced(e, 2))

\* a scan statement has returned, the file has a free slot before a live
\* record, and one condition list selects two of its three live records
\* while another selects none
C37_Witness ==
    /\ last.op = "scan" /\ last.res = "OK"
    /\ \E t \in Txns : scan_[t].done
    /\ Cardinality(Live(fh_)) = 3
    /\ \E rid \in Live(fh_) : \E free \in Rids \ Live(fh_) :
          free[1] < rid[1] \/ (free[1] = rid[1] /\ free[2] < rid[2])
    /\ \E conds \in ScanConds :
          /\ Len(conds) = 2
          /\ Len(Selected(fh_, conds, RM_FIRST_RECORD_PAGE, 0)) = 2
    /\ \E conds \in ScanConds :
          Selected(fh_, conds, RM_FIRST_RECORD_PAGE, 0) = <<>>

\* the pairs <<l, r>> of a rid of ls and a rid of rs, after position j of rs
\* for the left rid at position i, whose records satisfy every condition of
\* conds on the joined tuple; left position first, right position second
RECURSIVE PairsFrom(_, _, _, _, _, _, _)
PairsFrom(lf, rf, ls, rs, conds, i, j) ==
    IF i > Len(ls) THEN <<>>
    ELSE IF j > Len(rs) THEN PairsFrom(lf, rf, ls, rs, conds, i + 1, 1)
    ELSE LET tuple == <<lf.pages[ls[i][1]].slots[ls[i][2]],
                        rf.pages[rs[j][1]].slots[rs[j][2]]>>
         IN (IF \A c \in 1..Len(conds) :
                    Rel(tuple[conds[c].lhs], conds[c].op, tuple[conds[c].rhs])
             THEN <<[l |-> ls[i], r |-> rs[j], tuple |-> tuple]>> ELSE <<>>)
            \o PairsFrom(lf, rf, ls, rs, conds, i, j + 1)

\* the qualifying pairs of a join of two scans
JoinPairs(e) ==
    PairsFrom(e.left.fh, e.right.fh,
              Selected(e.left.fh, <<>>, RM_FIRST_RECORD_PAGE, 0),
              Selected(e.right.fh, <<>>, RM_FIRST_RECORD_PAGE, 0),
              e.conds, 1, 1)

\* the join of two scans as its constructor leaves it
AsBuilt(e) ==
    NestedLoopJoinExecutor(SeqScanExecutor(e.left.fh, e.left.conds),
                           SeqScanExecutor(e.right.fh, e.right.conds), e.conds)

TwoScans(e) ==
    /\ e.type = "NestedLoopJoinExecutor"
    /\ e.left.type = "SeqScanExecutor"
    /\ e.right.type = "SeqScanExecutor"

C39_ReRequestIdempotent ==
    [][(/\ last'.op \in LockOps
        /\ last'.txn \in Txns
        /\ txn_state[last'.txn] = "GROWING"
        /\ HeldMode(lock_table[last'.id], last'.txn) # "NON_LOCK"
        /\ ModeLeq(ModeOf(last'.op), HeldMode(lock_table[last'.id], last'.txn)))
       => /\ last'.res = "OK"
          /\ lock_table' = lock_table
          /\ lock_set'[last'.txn] = lock_set[last'.txn]
          /\ txn_state' = txn_state]_vars

\* a request for IS has returned to a transaction whose request on the
\* table has mode SIX, next to the IS request of the other transaction
C39_Witness ==
    /\ last.op = "lock_IS_on_table" /\ last.res = "OK"
    /\ last.txn \in Txns
    /\ txn_state[last.txn] = "GROWING"
    /\ HeldMode(lock_table[TAB], last.txn) = "SIX"
    /\ \E u \in Txns \ {last.txn} : HeldMode(lock_table[TAB], u) = "IS"
    /\ TAB \in lock_set[last.txn]

\* C40: a lock request that fails with LOCK_ON_SHRINKING or with
\* DEADLOCK_PREVENTION leaves the requests and the group mode of every
\* queue, every lock set and the state of every transaction as they were;
\* so the requesting transaction keeps the mode of the request it had.
C40_FailedRequestChangesNothing ==
    [][(/\ last'.op \in LockOps
        /\ last'.txn \in Txns
        /\ last'.res \in {"LOCK_ON_SHRINKING", "DEADLOCK_PREVENTION"})
       => /\ lock_table' = lock_table
          /\ lock_set' = lock_set
          /\ txn_state' = txn_state
          /\ \A id \in AllLockIds :
                HeldMode(lock_table'[id], last'.txn)
                    = HeldMode(lock_table[id], last'.txn)]_vars

\* the upgrade of a shared record lock to X was refused because the other
\* transaction holds S on the record too; the transaction is still GROWING
\* and keeps its S request and its lock set
C40_Witness ==
    /\ last.op = "lock_exclusive_on_record"
    /\ last.res = "DEADLOCK_PREVENTION"
    /\ last.txn \in Txns
    /\ txn_state[last.txn] = "GROWING"
    /\ HeldMode(lock_table[last.id], last.txn) = "S"
    /\ last.id \in lock_set[last.txn]
    /\ \E u \in Txns \ {last.txn} : HeldMode(lock_table[last.id], u) = "S"

=============================================================================
